---- MODULE Spec2Model ----
(***************************************************************************)
(* Model of the BraTS job orchestrator (brats/core/brats_algorithm.py),    *)
(* its scratch-directory context manager (brats/utils/data_handling.py)    *)
(* and the execution backends (brats/core/docker.py, singularity.py,       *)
(* kubernetes.py).  One behaviour is one call: an inference call of the    *)
(* orchestrator (which runs the direct container backend), or a call of    *)
(* the sandboxed or of the remote backend on a staged input directory.     *)
(*                                                                         *)
(* File names are sequences of the hyphen separated segments of the stem,  *)
(* "BraTS-GLI-00001-000.nii.gz" is <<"BraTS", "GLI", "00001", "000">>.     *)
(***************************************************************************)
EXTENDS Integers, Sequences, FiniteSets, Bags, TLC

VARIABLES
    cfg,        \* the inputs of the call and the probed environment (never changes)
    pc,         \* position of the call
    err,        \* exception propagating out of the current frame, "none" if none
    tmp,        \* existence of the two scratch directories of an inference call
    dataDir,    \* names of the entries of the input directory of the backend
    outDir,     \* files of the output directory of the backend: records [name, content]
    userOut,    \* files in the caller's output location: records [name, src]
    trace,      \* history: the steps of the call in the order they happened
    warnings,   \* bag of the warnings logged so far: records [kind, about]
    run,        \* backend run bookkeeping (container launched, exit status, ...)
    k8s         \* the cluster as the remote backend sees and changes it

vars == <<cfg, pc, err, tmp, dataDir, outDir, userOut, trace, warnings, run, k8s>>

----------------------------------------------------------------------------
(* Bounds *)

\* largest number of subject sub directories of a batch
MaxSubjects == 2

\* number of versions of the additional files of a record
MaxVersion == 2

\* number of polls of a polling loop of the remote backend (the code polls 300
\* times, 2 seconds apart)
MaxPolls == 2

\* the number of calls on the logger in one behaviour of LoggingSpec
MaxCalls == 4

----------------------------------------------------------------------------
(* Names *)

Tasks == {"SEGMENTATION", "INPAINTING", "MISSING_MRI"}

\* the calls: the two inference calls of the orchestrator, the two other backends
Calls == {"infer_single", "infer_batch", "singularity", "kubernetes"}

Orchestrated(call) == call \in {"infer_single", "infer_batch"}

\* external subject names, in the order the directory listing returns them
ExternalNames == <<"A", "B", "C">>

StartsWith(name, prefix) ==
    /\ Len(name) >= Len(prefix)
    /\ SubSeq(name, 1, Len(prefix)) = prefix

\* "{id:05d}" for the indices a batch can have
IdDigits == <<"00000", "00001", "00002", "00003">>

\* input_name_schema.format(id=i), e.g. "BraTS-GLI-{id:05d}-000"
InternalName(i) == <<"BraTS", "GLI", IdDigits[i + 1], "000">>

\* OUTPUT_NAME_SCHEMA[task].format(subject_id=sid)
OutputNameSchema(task, sid) ==
    IF task = "INPAINTING" THEN sid \o <<"t1n", "inference">> ELSE sid

\* a file with no relation to any subject
JunkName == <<"junk">>

\* the file a well behaved algorithm writes for subject i; a synthesis
\* algorithm names the file after the subject and, if names_modality, the
\* modality it synthesized
ExpectedOutput(task, i, names_modality) ==
    IF task = "MISSING_MRI"
    THEN IF names_modality THEN InternalName(i) \o <<"t2w">> ELSE InternalName(i)
    ELSE OutputNameSchema(task, InternalName(i))

\* the imaging modalities of a subject
Modalities == {"t1c", "t1n", "t2f", "t2w"}

NoErr == "none"

----------------------------------------------------------------------------
(* The inputs of one call *)

DeviceIds == {"0", "1"}

\* number of subjects of a call: one synthetic subject for a single inference
SubjectCounts(call) == IF call = "infer_single" THEN {1} ELSE 0 .. MaxSubjects

Configs ==
    { c \in [ call : Calls,
              task : Tasks,
              year : {2024, 2025},
              additional_files : BOOLEAN,
              cpu_compatible : BOOLEAN,
              cuda_available : BOOLEAN,
              force_cpu : BOOLEAN,
              cuda_devices : DeviceIds,
              \* the subject folders of the batch are themselves named after the
              \* canonical convention
              canonical_names : BOOLEAN,
              \* the directory the caller wants the output in exists already
              parent_exists : BOOLEAN,
              \* the caller gave a log file
              log_file : BOOLEAN,
              \* the synthesis algorithm ends its file names with the modality
              names_modality : BOOLEAN,
              nsubjects : 0 .. MaxSubjects,
              \* index of the first subject with a missing source file, -1 if none
              first_missing : -1 .. (MaxSubjects - 1) ] :
        /\ c.nsubjects \in SubjectCounts(c.call)
        /\ c.first_missing < c.nsubjects
        \* a backend neither knows the task nor copies source files
        /\ ~Orchestrated(c.call) => c.task = "SEGMENTATION" /\ c.first_missing = -1
        /\ c.canonical_names => c.call = "infer_batch"
        /\ ~Orchestrated(c.call) => c.parent_exists
        \* only the orchestrator takes a log file; the handler never reads the
        \* subjects: it is explored on calls of at most one subject
        /\ c.log_file => Orchestrated(c.call) /\ c.nsubjects <= 1
        /\ ~c.names_modality => c.call = "infer_batch" /\ c.task = "MISSING_MRI"
        \* the mount convention never reads the subjects: the later year is
        \* explored on the local backends with calls of at most one subject
        /\ (c.call # "kubernetes" /\ c.nsubjects > 1) => c.year = 2024
        \* the device ids are read only when a GPU is requested
        /\ (~c.cuda_available \/ c.force_cpu) => c.cuda_devices = "0"
        \* device negotiation never reads the subjects: its cases are explored
        \* on calls of at most one subject, larger calls take the default GPU
        /\ c.nsubjects > 1 =>
              c.cuda_available /\ ~c.force_cpu /\ c.cpu_compatible /\ c.cuda_devices = "0" }

Subjects == 0 .. (cfg.nsubjects - 1)

\* subject.name of the k-th of the n listed subject folders; the listing order
\* of folders with canonical names need not be the order of their ids
SubjectName(n, k) ==
    IF cfg.canonical_names THEN InternalName(n - k) ELSE <<ExternalNames[k]>>

----------------------------------------------------------------------------
(* Device negotiation: brats/core/docker.py _handle_device_requests *)

\* bug: the GPU request is bound to device "0" whatever the caller asked for
HandleDeviceRequestsFixedDevice(cuda_available, force_cpu, cpu_compatible, cuda_devices) ==
    IF ~cuda_available \/ force_cpu
    THEN IF ~cpu_compatible
         THEN [ raised |-> TRUE,
                cause |-> IF cuda_available THEN "forced_cpu" ELSE "no_gpu",
                requests |-> <<>> ]
         ELSE [ raised |-> FALSE, cause |-> "none", requests |-> <<>> ]
    ELSE [ raised |-> FALSE, cause |-> "none",
           requests |-> << [ device_ids |-> <<"0">>, capabilities |-> "gpu" ] >> ]

HandleDeviceRequests(cuda_available, force_cpu, cpu_compatible, cuda_devices) ==
    IF ~cuda_available \/ force_cpu
    THEN IF ~cpu_compatible
         THEN [ raised |-> TRUE,
                cause |-> IF cuda_available THEN "forced_cpu" ELSE "no_gpu",
                requests |-> <<>> ]
         ELSE [ raised |-> FALSE, cause |-> "none", requests |-> <<>> ]
    ELSE [ raised |-> FALSE, cause |-> "none",
           requests |-> << [ device_ids |-> <<cuda_devices>>, capabilities |-> "gpu" ] >> ]

NotNegotiated == [ raised |-> FALSE, cause |-> "not_negotiated", requests |-> <<>> ]

----------------------------------------------------------------------------
(* Output sanity check: brats/core/docker.py _sanity_check_output *)

\* bug: every entry of the input directory is counted
SanityInputsAll(data) == data

\* inputs = [e for e in data_path.iterdir() if e.name.startswith("BraTS")]
SanityInputs(data) == { e \in data : StartsWith(e, <<"BraTS">>) }

SanityRaises(data, out) == Cardinality(out) < Cardinality(SanityInputs(data))

\* internal_external_name_map=None
NoNameMap == [ given |-> FALSE, items |-> <<>> ]

\* the internal_external_name_map argument of the backend call: _infer_single
\* and _infer_batch call run_container without it; a direct caller of a backend
\* passes the map of the staged subject folders
BackendNameMap ==
    IF Orchestrated(cfg.call) THEN NoNameMap
    ELSE [ given |-> TRUE,
           items |-> [ k \in 1 .. cfg.nsubjects |-> <<InternalName(k - 1), <<ExternalNames[k]>> >> ] ]

\* name_key = [k for k in internal_external_name_map.keys() if output.name.startswith(k)]
NameKeys(items, name) == SelectSeq(items, LAMBDA it : StartsWith(name, it[1]))

\* the subject named in the warning, <<>> for the empty name
WarnedSubject(map, name) ==
    IF map.given /\ NameKeys(map.items, name) # <<>>
    THEN NameKeys(map.items, name)[1][2]
    ELSE <<>>

ZeroWarning(name) ==
    [ kind |-> "only_zeros", about |-> name, subject |-> WarnedSubject(BackendNameMap, name) ]

\* bug: the warning is logged for every output file
WarnedOutputsAll(out) == out

\* the outputs the loop over the output files warns about:
\* np.count_nonzero(content) == 0
WarnedOutputs(out) == { f \in out : f.content = "zero" }

\* the bag of warnings of the check: none when it raises, else one per warned output
SanityWarnings(data, out) ==
    IF SanityRaises(data, out) THEN EmptyBag
    ELSE SetToBag({ ZeroWarning(f.name) : f \in WarnedOutputs(out) })

NoSanity == [ ran |-> FALSE, raised |-> FALSE, ninputs |-> 0, noutputs |-> 0 ]

SanityCheckOutput(data, out) ==
    [ ran |-> TRUE,
      raised |-> SanityRaises(data, out),
      ninputs |-> Cardinality(SanityInputs(data)),
      noutputs |-> Cardinality(out) ]

----------------------------------------------------------------------------
(* What an algorithm container can leave behind *)

OutputUniverse ==
    { ExpectedOutput(cfg.task, i, cfg.names_modality) : i \in Subjects } \cup { JunkName }

\* the possible contents of the output directory after the container ran
ContainerOutputs ==
    { { [ name |-> n, content |-> c[n] ] : n \in present } :
        present \in SUBSET OutputUniverse, c \in [ OutputUniverse -> {"zero", "nonzero"} ] }

\* entries the algorithm may add to the input directory
IncidentalInputs == { {}, { <<"results", "cache">> }, { <<"BraTS", "cache">> } }

----------------------------------------------------------------------------
(* Additional files: brats/utils/zenodo.py *)

Versions == 1 .. MaxVersion

\* the artifact repository and the local folder of additional files: whether
\* the repository answers, its latest version, the state of the local folder
\* "<record_id>_v<version>" of every version, whether the archive downloads,
\* whether a folder can be removed
ZenodoEnvs ==
    [ reachable : BOOLEAN,
      remote : Versions,
      cache : [ Versions -> {"absent", "empty", "full"} ],
      download_ok : BOOLEAN,
      rmtree_ok : BOOLEAN ]

\* the return value None
NoResponse == [ some |-> FALSE, version |-> 0 ]

\* _get_zenodo_metadata_and_archive_url: (metadata, archive url), or None when
\* the request raised
ZenodoMetadata(env) ==
    IF env.reachable THEN [ some |-> TRUE, version |-> env.remote ] ELSE NoResponse

\* zenodo_metadata, archive_url = _get_zenodo_metadata_and_archive_url(...):
\* None cannot be unpacked
UnpackError(response) == IF response.some THEN NoErr ELSE "TypeError"

\* ADDITIONAL_FILES_FOLDER.glob(f"{record_id}_v*.*.*")
MatchingFolders(cache) == { v \in Versions : cache[v] # "absent" }

\* sorted(folders, reverse=True, key=version)[0]
NewestFolder(folders) == CHOOSE v \in folders : \A w \in folders : w <= v

\* _get_latest_version_folder_name: the newest folder unless it is empty;
\* 0 stands for None
LatestVersionFolder(cache) ==
    IF MatchingFolders(cache) = {} THEN 0
    ELSE IF cache[NewestFolder(MatchingFolders(cache))] = "empty" THEN 0
    ELSE NewestFolder(MatchingFolders(cache))

ZenodoResult(e, path, warned, deleted, downloaded) ==
    [ err |-> e, path |-> path, warned |-> warned, deleted |-> deleted,
      downloaded |-> downloaded ]

\* _download_additional_files: the record folder, None (0) when the download
\* failed
DownloadAdditionalFiles(env, version, deleted) ==
    ZenodoResult(NoErr, IF env.download_ok THEN version ELSE 0, FALSE, deleted, TRUE)

\* check_additional_files_path: path is the version of the folder returned
CheckAdditionalFilesPath(env) ==
    LET response == ZenodoMetadata(env)
        latest == LatestVersionFolder(env.cache)
    IN IF UnpackError(response) # NoErr
       THEN ZenodoResult(UnpackError(response), 0, FALSE, 0, FALSE)
       ELSE IF latest = 0
       THEN IF ~response.some
            THEN ZenodoResult("SystemExit", 0, FALSE, 0, FALSE)
            ELSE DownloadAdditionalFiles(env, response.version, 0)
       ELSE IF ~response.some
       THEN ZenodoResult(NoErr, latest, TRUE, 0, FALSE)
       ELSE IF response.version = latest
       THEN ZenodoResult(NoErr, latest, FALSE, 0, FALSE)
       ELSE DownloadAdditionalFiles(env, response.version, latest)

\* shutil.rmtree(folder, onerror=...): what cannot be deleted is logged and stays
Rmtree(cache, version, rmtree_ok) ==
    IF rmtree_ok THEN [ cache EXCEPT ![version] = "absent" ] ELSE cache

\* _download_additional_files on the local folders: record_folder.mkdir(parents=True,
\* exist_ok=True), and _extract_archive into it when the status of the answer is 200
RecordFolderAfter(cache, version, download_ok) ==
    IF download_ok THEN [ cache EXCEPT ![version] = "full" ]
    ELSE IF cache[version] = "absent" THEN [ cache EXCEPT ![version] = "empty" ]
    ELSE cache

\* the local folders after check_additional_files_path
CacheAfter(env) ==
    LET r == CheckAdditionalFilesPath(env)
        kept == IF r.deleted # 0 THEN Rmtree(env.cache, r.deleted, env.rmtree_ok)
                ELSE env.cache
    IN IF r.downloaded THEN RecordFolderAfter(kept, env.remote, env.download_ok) ELSE kept

\* whether _extract_archive is called: only behind the check of the status
Extracted(env) == CheckAdditionalFilesPath(env).downloaded /\ env.download_ok

\* what the call of check_additional_files_path ends with
ZenodoOutcome(env) ==
    IF CheckAdditionalFilesPath(env).err # NoErr THEN CheckAdditionalFilesPath(env).err
    ELSE "resolved"

----------------------------------------------------------------------------
(* Bookkeeping of a backend run *)

\* exit is -1 as long as no exit status has been seen
\* name_map is the internal -> external name map of a batch, as the ordered
\* list of its items, once the standardization has returned it; out_parent is
\* the directory the caller wants the output in; log is the captured output of
\* the container and err_text the parts of the message of the raised error
NoRun == [ launched |-> FALSE, exit |-> -1, device |-> NotNegotiated, name_map |-> <<>>,
           out_parent |-> "present", log |-> "", err_text |-> <<>>,
           sanity |-> NoSanity, rm_failed |-> {},
           overlay |-> "unknown", overlay_created |-> FALSE,
           volumes |-> <<>>, command |-> <<>> ]

----------------------------------------------------------------------------
(* Scratch directories: brats/utils/data_handling.py InferenceSetup *)

Raise(e, next) ==
    /\ err' = e
    /\ pc' = next

\* before InferenceSetup is entered: no scratch directory, and no file handler
\* was ever added to the logger
NoSetup == [ data |-> "absent", out |-> "absent", handler |-> "never" ]

\* if log_file is not None: logger_id = add_log_file_handler(log_file)
AddLogFileHandler(log_file, handler) == IF log_file THEN "registered" ELSE handler

\* if log_file is not None: logger.remove(logger_id)
RemoveLogFileHandler(log_file, handler) == IF log_file THEN "removed" ELSE handler

\* with InferenceSetup(log_file) as (tmp_data_folder, tmp_output_folder):
EnterInferenceSetup ==
    /\ pc = "start"
    /\ tmp' = [ data |-> "present", out |-> "present",
                handler |-> AddLogFileHandler(cfg.log_file, tmp.handler) ]
    /\ trace' = Append(trace, "scratch_created")
    /\ pc' = "standardize"
    /\ UNCHANGED <<cfg, err, dataDir, outDir, userOut, warnings, run, k8s>>

\* shutil.rmtree(folder) either removes the folder or raises
RmOutcomes == {"removed", "PermissionError", "OSError"}

\* the errors remove_tmp_folder catches and logs as a warning
RmCaught == {"PermissionError", "FileNotFoundError"}

\* remove_tmp_folder(folder) returns normally
RmReturns(outcome) == outcome \in RmCaught \cup {"removed"}

\* a folder whose removal raised is still there (at least in part)
AfterRm(before, outcome) == IF outcome = "removed" THEN "absent" ELSE before

\* bug: the removal is skipped when the body raised (no try/finally)
CleanupRunsOnSuccess(e) == e = NoErr

\* try: yield ... finally: the removal runs however the body ended
CleanupRuns(e) == TRUE

\* finally: remove_tmp_folder(tmp_data_folder); remove_tmp_folder(tmp_output_folder)
ExitInferenceSetup ==
    /\ pc = "cleanup"
    /\ IF CleanupRuns(err)
       THEN \E r1 \in RmOutcomes, r2 \in RmOutcomes :
              \* an error remove_tmp_folder does not catch leaves the finally block
              LET second == RmReturns(r1)
                  failed == { d \in {"data", "out"} :
                                \/ d = "data" /\ r1 # "removed"
                                \/ d = "out" /\ (~second \/ r2 # "removed") }
                  logged == { d \in {"data", "out"} :
                                \/ d = "data" /\ r1 \in RmCaught
                                \/ d = "out" /\ second /\ r2 \in RmCaught }
              IN /\ tmp' = [ data |-> AfterRm(tmp.data, r1),
                             out |-> IF second THEN AfterRm(tmp.out, r2) ELSE tmp.out,
                             \* the last statement of the finally block
                             handler |-> IF second /\ RmReturns(r2)
                                         THEN RemoveLogFileHandler(cfg.log_file, tmp.handler)
                                         ELSE tmp.handler ]
                 /\ warnings' = warnings (+)
                        SetToBag({ [ kind |-> "rm_failed", about |-> <<d>> ] : d \in logged })
                 /\ run' = [ run EXCEPT !.rm_failed = failed ]
                 /\ err' = IF ~second THEN r1
                           ELSE IF ~RmReturns(r2) THEN r2
                           ELSE err
                 /\ trace' = Append(trace, "scratch_destroyed")
       ELSE UNCHANGED <<tmp, warnings, run, err, trace>>
    /\ pc' = "done"
    /\ UNCHANGED <<cfg, dataDir, outDir, userOut, k8s>>

----------------------------------------------------------------------------
(* Input standardization: brats/core/segmentation_algorithms.py *)

\* the subject folders created before the copy of a missing source file raised
StandardizedFolders(n, first_missing) ==
    { InternalName(i) : i \in 0 .. (IF first_missing >= 0 THEN first_missing ELSE n - 1) }

\* internal_external_name_map[key] = value on a dict kept as the list of its items
DictSet(items, key, value) ==
    IF \E j \in 1 .. Len(items) : items[j][1] = key
    THEN [ j \in 1 .. Len(items) |-> IF items[j][1] = key THEN <<key, value>> ELSE items[j] ]
    ELSE Append(items, <<key, value>>)

\* bug: the key does not depend on the index of the subject
NameMapKeyOfFirst(i) == InternalName(0)

\* internal_name = input_name_schema.format(id=i)
NameMapKey(i) == InternalName(i)

\* the loop of _standardize_batch_inputs from subject i on: the entry of a
\* subject is set before its files are copied
RECURSIVE StandardizeBatchInputs(_, _, _, _)
StandardizeBatchInputs(n, first_missing, i, map) ==
    IF i >= n THEN [ raised |-> FALSE, map |-> map ]
    ELSE LET m == DictSet(map, NameMapKey(i), SubjectName(n, i + 1))
         IN IF i = first_missing THEN [ raised |-> TRUE, map |-> m ]
            ELSE StandardizeBatchInputs(n, first_missing, i + 1, m)

\* _standardize_single_inputs / _standardize_batch_inputs
Standardize ==
    /\ pc = "standardize"
    /\ dataDir' = StandardizedFolders(cfg.nsubjects, cfg.first_missing)
    /\ LET r == StandardizeBatchInputs(cfg.nsubjects, cfg.first_missing, 0, <<>>)
       IN run' = [ run EXCEPT !.name_map =
                       IF cfg.call = "infer_batch" /\ ~r.raised THEN r.map ELSE <<>> ]
    /\ IF cfg.first_missing >= 0
       THEN /\ Raise("FileNotFoundError", "cleanup")
            /\ trace' = Append(trace, "standardize_raised")
       ELSE /\ pc' = "backend"
            /\ trace' = Append(trace, "standardized")
            /\ UNCHANGED err
    /\ UNCHANGED <<cfg, tmp, outDir, userOut, warnings, k8s>>

----------------------------------------------------------------------------
(* Backend invocation from the orchestrator *)

\* run_container(algorithm, data_path=tmp_data_folder, output_path=tmp_output_folder, ...)
InvokeBackend ==
    /\ pc = "backend"
    /\ pc' = "d_prepare"
    /\ trace' = Append(trace, "backend_invoked")
    /\ UNCHANGED <<cfg, err, tmp, dataDir, outDir, userOut, warnings, run, k8s>>

\* bug: the error of the backend is recorded but the call goes on
BackendRaiseSwallowed(steps, e) ==
    /\ Raise(e, IF Orchestrated(cfg.call) THEN "relocate" ELSE "done")
    /\ trace' = trace \o steps \o <<"backend_raised">>

\* the backend call raises e (into the with-block of the orchestrator), after
\* having done the given steps
BackendRaiseAfter(steps, e) ==
    /\ Raise(e, IF Orchestrated(cfg.call) THEN "cleanup" ELSE "done")
    /\ trace' = trace \o steps \o <<"backend_raised">>

BackendRaise(e) == BackendRaiseAfter(<<>>, e)

\* the backend call returns normally, after having done the given steps
BackendReturnAfter(steps) ==
    /\ pc' = IF Orchestrated(cfg.call) THEN "relocate" ELSE "done"
    /\ trace' = trace \o steps \o <<"backend_returned">>
    /\ UNCHANGED err

BackendReturn == BackendReturnAfter(<<>>)

\* the backend goes on with its next step
Goto(steps, next) ==
    /\ pc' = next
    /\ trace' = trace \o steps
    /\ UNCHANGED err

\* the shared tail of the three backends: _sanity_check_output(...)
SanityOutcome(data, out) ==
    /\ run' = [ run EXCEPT !.sanity = SanityCheckOutput(data, out) ]
    /\ warnings' = warnings (+) SanityWarnings(data, out)

----------------------------------------------------------------------------
(* Direct container backend: brats/core/docker.py run_container *)

\* _get_additional_files_path: check_additional_files_path is only called when
\* the descriptor declares additional files
ZenodoOutcomes(additional_files) ==
    IF additional_files THEN { ZenodoOutcome(env) : env \in ZenodoEnvs } ELSE {"resolved"}

Negotiate ==
    HandleDeviceRequests(cfg.cuda_available, cfg.force_cpu, cfg.cpu_compatible,
                         cfg.cuda_devices)

\* bug: the devices are negotiated only after the container or job was launched
NegotiatedAfterLaunch(r, d) == [ r EXCEPT !.device = d, !.launched = TRUE ]

\* the run when the device negotiation is over: the negotiation comes before
\* client.containers.run / Client.run / _create_namespaced_job
Negotiated(r, d) == [ r EXCEPT !.device = d ]

\* the binds of _get_volume_mappings, in the order data, additional files,
\* output, parameters
GetVolumeMappings == <<"/mlcube_io0", "/mlcube_io1", "/mlcube_io2", "/mlcube_io3">>

\* command_args of _build_args
BuildArgs == <<"--data_path=/mlcube_io0", "--output_path=/mlcube_io2">>

\* volumes= and command= of client.containers.run: the descriptor's year is not read
DockerConvention(year) ==
    [ volumes |-> GetVolumeMappings, command |-> <<"infer">> \o BuildArgs ]

\* everything run_container does before client.containers.run
DockerPrepare ==
    /\ pc = "d_prepare"
    /\ \E z \in ZenodoOutcomes(cfg.additional_files) :
         IF z # "resolved"
         THEN /\ BackendRaise(z)
              /\ UNCHANGED run
         ELSE /\ run' = Negotiated(run, Negotiate)
              /\ IF Negotiate.raised
                 THEN BackendRaise("AlgorithmNotCPUCompatibleException")
                 ELSE /\ pc' = "d_run"
                      /\ UNCHANGED <<err, trace>>
    /\ UNCHANGED <<cfg, tmp, dataDir, outDir, userOut, warnings, k8s>>

\* _observe_docker_output: what a container exit status turns into
DockerExitError(status) == IF status # 0 THEN "BraTSContainerException" ELSE NoErr

ExitStatuses == {0, 1}

\* the joined lines of container.attach(stdout=True, stderr=True, ...)
ContainerLog == "Traceback (most recent call last): ..."

\* the message the error of a non-zero exit is raised with
DockerExitMessage(log) == <<"Container finished with an error. See logs above for details.">>

\* logger.error(f">> {container_output}")
ErrorLogged(log) == SetToBag({ [ kind |-> "error", about |-> <<">> ", log>>, subject |-> <<>> ] })

\* client.containers.run(...) followed by _observe_docker_output(container)
DockerRun ==
    /\ pc = "d_run"
    /\ \E status \in ExitStatuses, out \in ContainerOutputs, inc \in IncidentalInputs :
         /\ outDir' = out
         /\ dataDir' = dataDir \cup inc
         /\ IF DockerExitError(status) # NoErr
            THEN /\ run' = [ run EXCEPT !.launched = TRUE, !.exit = status,
                                        !.volumes = DockerConvention(cfg.year).volumes,
                                        !.command = DockerConvention(cfg.year).command,
                                        !.log = ContainerLog,
                                        !.err_text = DockerExitMessage(ContainerLog) ]
                 /\ warnings' = warnings (+) ErrorLogged(ContainerLog)
                 /\ BackendRaise(DockerExitError(status))
            ELSE /\ run' = [ run EXCEPT !.launched = TRUE, !.exit = status,
                                        !.volumes = DockerConvention(cfg.year).volumes,
                                        !.command = DockerConvention(cfg.year).command,
                                        !.log = ContainerLog ]
                 /\ pc' = "d_sanity"
                 /\ UNCHANGED <<err, trace, warnings>>
    /\ UNCHANGED <<cfg, tmp, userOut, k8s>>

\* _sanity_check_output(data_path, output_path, container_output, name map)
DockerSanity ==
    /\ pc = "d_sanity"
    /\ SanityOutcome(dataDir, outDir)
    /\ IF SanityRaises(dataDir, outDir)
       THEN BackendRaise("BraTSContainerException")
       ELSE BackendReturn
    /\ UNCHANGED <<cfg, tmp, dataDir, outDir, userOut, k8s>>

----------------------------------------------------------------------------
(* Sandboxed container backend: brats/core/singularity.py run_container *)

\* the binds of _get_volume_mappings_mlcube, in the order data, additional
\* files, output, parameters
GetVolumeMappingsMlcube == <<"/mlcube_io0", "/mlcube_io1", "/mlcube_io2", "/mlcube_io3">>

\* the binds of _get_volume_mappings_docker_only, in the order data, output
GetVolumeMappingsDockerOnly == <<"/input", "/output">>

\* _build_command_args
BuildCommandArgs == <<"--data_path=/mlcube_io0", "--output_path=/mlcube_io2">>

\* bind= and args= of Client.run, selected by algorithm.meta.year
SingularityConvention(year) ==
    IF year <= 2024
    THEN [ volumes |-> GetVolumeMappingsMlcube, command |-> <<"infer">> \o BuildCommandArgs ]
    ELSE [ volumes |-> GetVolumeMappingsDockerOnly, command |-> <<>> ]

\* everything run_container does before Client.run, the overlay included
SingularityPrepare ==
    /\ pc = "s_prepare"
    /\ \E z \in ZenodoOutcomes(cfg.additional_files), existed \in BOOLEAN :
         IF z # "resolved"
         THEN /\ BackendRaise(z)
              /\ UNCHANGED run
         ELSE IF Negotiate.raised
              THEN /\ run' = Negotiated(run, Negotiate)
                   /\ BackendRaise("AlgorithmNotCPUCompatibleException")
              ELSE \* if not overlay_path.exists(): singularity overlay create
                   /\ run' = [ Negotiated(run, Negotiate) EXCEPT
                                   !.overlay = "present",
                                   !.overlay_created = ~existed ]
                   /\ pc' = "s_run"
                   /\ UNCHANGED <<err, trace>>
    /\ UNCHANGED <<cfg, tmp, dataDir, outDir, userOut, warnings, k8s>>

\* for line in executor: the stream of the sandbox engine raises the library's
\* process error when the container exits with a non-zero status
SingularityExitError(status) == IF status # 0 THEN "CalledProcessError" ELSE NoErr

\* executor = Client.run(image, options, args, stream=True, bind=...)
SingularityRun ==
    /\ pc = "s_run"
    /\ \E status \in ExitStatuses, out \in ContainerOutputs, inc \in IncidentalInputs :
         /\ run' = [ run EXCEPT !.launched = TRUE, !.exit = status,
                                 !.volumes = SingularityConvention(cfg.year).volumes,
                                 !.command = SingularityConvention(cfg.year).command ]
         /\ outDir' = out
         /\ dataDir' = dataDir \cup inc
         /\ err' = SingularityExitError(status)
         /\ pc' = IF SingularityExitError(status) # NoErr THEN "s_finally" ELSE "s_sanity"
    /\ UNCHANGED <<cfg, tmp, userOut, warnings, trace, k8s>>

\* _sanity_check_output(...) inside the try block
SingularitySanity ==
    /\ pc = "s_sanity"
    /\ SanityOutcome(dataDir, outDir)
    /\ err' = IF SanityRaises(dataDir, outDir) THEN "BraTSContainerException" ELSE NoErr
    /\ pc' = "s_finally"
    /\ UNCHANGED <<cfg, tmp, dataDir, outDir, userOut, trace, k8s>>

\* bug: the overlay is removed whoever created it
UnlinkOverlayAlways(overlay, overlay_created) == "absent"

\* if overlay_created: overlay_path.unlink()
UnlinkOverlay(overlay, overlay_created) == IF overlay_created THEN "absent" ELSE overlay

\* finally: if overlay_created: overlay_path.unlink()
SingularityFinally ==
    /\ pc = "s_finally"
    /\ run' = [ run EXCEPT !.overlay = UnlinkOverlay(run.overlay, run.overlay_created) ]
    /\ IF err # NoErr THEN BackendRaise(err) ELSE BackendReturn
    /\ UNCHANGED <<cfg, tmp, dataDir, outDir, userOut, warnings, k8s>>

----------------------------------------------------------------------------
(* The cluster as seen by the remote backend *)

ClaimName == "pvc"

\* pvc_name + "-output"
OutputClaimName == ClaimName \o "-output"

\* the life of the job pod: its init container blocks until the sentinel file
\* exists, then the main container runs and the pod ends Succeeded or Failed
PodLife ==
    << [ phase |-> "Pending", init |-> "none", main |-> "none" ],
       [ phase |-> "Pending", init |-> "waiting", main |-> "waiting" ],
       [ phase |-> "Pending", init |-> "running", main |-> "waiting" ],
       [ phase |-> "Pending", init |-> "terminated", main |-> "waiting" ],
       [ phase |-> "Running", init |-> "terminated", main |-> "running" ],
       [ phase |-> "Succeeded", init |-> "terminated", main |-> "terminated" ] >>

PodFailed == [ phase |-> "Failed", init |-> "terminated", main |-> "terminated" ]

NoPod == [ phase |-> "none", init |-> "none", main |-> "none" ]

\* bug: a running pod is taken for a pod that has ended
TerminalOrRunning(pod) == pod.phase \in {"Failed", "Succeeded", "Running"}

\* pod_phase in ("Succeeded", "Failed")
Terminal(pod) == pod.phase \in {"Failed", "Succeeded"}

PodRank(pod) == CHOOSE r \in 1 .. Len(PodLife) : PodLife[r] = pod

\* what the pod can have become by the next time the client reads it
PodReach(pod, sentinel) ==
    IF Terminal(pod) THEN {pod}
    ELSE { PodLife[r] : r \in { q \in PodRank(pod) .. Len(PodLife) : q > 3 => sentinel } }
         \cup {PodFailed}

\* a command can be executed only in a running container
ExecWorks(pod, container) ==
    IF container = "init-container" THEN pod.init = "running" ELSE pod.main = "running"

\* bug: the error of the exec stream is caught and dropped
ExecErrorDropped(pod, container) == NoErr

\* _execute_command_in_pod: the error of the exec stream is not caught
ExecError(pod, container) ==
    IF ExecWorks(pod, container) THEN NoErr ELSE "ApiException"

NoK8s == [ pvcs |-> {}, pvc_calls |-> <<>>, pvc_creates |-> <<>>, job |-> FALSE, finalizer |-> FALSE,
           pod |-> NoPod, polls |-> 0, sentinel |-> FALSE, fin_sentinel |-> FALSE,
           timeouts |-> {}, early_terminal |-> FALSE, log |-> "none", uploads |-> {},
           staged |-> {}, checked |-> {}, present |-> {} ]

----------------------------------------------------------------------------
(* Remote cluster backend: brats/core/kubernetes.py run_job *)

\* the remote backend asks for the metadata itself and raises when there is none
KubeZenodoOutcomes(additional_files) ==
    IF additional_files THEN {"resolved", "ZenodoException"} ELSE {"resolved"}

\* one call of _create_namespaced_pvc: the name asked for and the names that
\* list_namespaced_persistent_volume_claim returned
PvcCall(k, name) == [ name |-> name, listed |-> k.pvcs ]

\* bug: the claim is created without looking at the listing
EnsurePvcBlindly(k, name) ==
    [ k EXCEPT !.pvc_calls = Append(@, PvcCall(k, name)),
               !.pvcs = @ \cup {name}, !.pvc_creates = Append(@, name) ]

\* _create_namespaced_pvc: list the claims, create the claim if it is not listed
EnsurePvc(k, name) ==
    IF name \in k.pvcs THEN [ k EXCEPT !.pvc_calls = Append(@, PvcCall(k, name)) ]
    ELSE [ k EXCEPT !.pvc_calls = Append(@, PvcCall(k, name)),
                    !.pvcs = @ \cup {name}, !.pvc_creates = Append(@, name) ]

\* bug: every algorithm is run the way of the algorithms up to 2024
LegacyWhateverTheYear == TRUE

\* algorithm.meta.year <= 2024
Legacy == cfg.year <= 2024

\* run_job up to the creation of the job: claims, device negotiation, the
\* metadata of the additional files
KubePrepare ==
    /\ pc = "k_pvc"
    /\ \E listed \in SUBSET {ClaimName, OutputClaimName},
          z \in KubeZenodoOutcomes(Legacy /\ cfg.additional_files) :
         LET k1 == EnsurePvc([ k8s EXCEPT !.pvcs = listed ], ClaimName)
         IN IF Negotiate.raised
            THEN /\ k8s' = k1
                 /\ run' = Negotiated(run, Negotiate)
                 /\ BackendRaiseAfter(<<"claim_ensured">>,
                                      "AlgorithmNotCPUCompatibleException")
            ELSE /\ run' = Negotiated(run, Negotiate)
                 /\ IF z # "resolved"
                    THEN /\ k8s' = k1
                         /\ BackendRaiseAfter(<<"claim_ensured">>, z)
                    ELSE IF Legacy
                         THEN /\ k8s' = k1
                              /\ Goto(<<"claim_ensured">>, "k_create_job")
                         ELSE /\ k8s' = EnsurePvc(k1, OutputClaimName)
                              /\ Goto(<<"claim_ensured", "output_claim_ensured">>,
                                      "k_create_job")
    /\ UNCHANGED <<cfg, tmp, dataDir, outDir, userOut, warnings>>

\* _create_namespaced_job: create the job, wait (bounded) for its pod
KubeCreateJob ==
    /\ pc = "k_create_job"
    /\ run' = [ run EXCEPT !.launched = TRUE ]
    /\ \E appeared \in BOOLEAN :
         IF appeared
         THEN /\ k8s' = [ k8s EXCEPT !.job = TRUE, !.pod = PodLife[1], !.polls = 0 ]
              /\ Goto(<<"job_created">>, "k_wait_running")
         ELSE /\ k8s' = [ k8s EXCEPT !.job = TRUE, !.timeouts = @ \cup {"job_pod"} ]
              /\ BackendRaiseAfter(<<"job_created">>, "RuntimeError")
    /\ UNCHANGED <<cfg, tmp, dataDir, outDir, userOut, warnings>>

\* one reading of the pod in the loop that waits for it to be running
WaitRunningVerdict(pod) ==
    IF pod.init # "none" /\ pod.init = "running" THEN "init_running"
    ELSE IF pod.phase = "Running" THEN "running"
    ELSE IF Terminal(pod) THEN "terminal"
    ELSE "sleep"

\* what the loop that waits for the pod to be running does when its polls are used up
WaitRunningTimeout == "RuntimeError"

TerminalWarning(pod) == SetToBag({ [ kind |-> "pod_terminal", about |-> <<pod.phase>> ] })

ExitOf(pod) == IF pod.phase = "Failed" THEN 1 ELSE 0

\* for _ in range(300): pod = read_namespaced_pod(...) ... else: raise RuntimeError
KubeWaitRunning ==
    /\ pc = "k_wait_running"
    /\ IF k8s.polls >= MaxPolls
       THEN /\ k8s' = [ k8s EXCEPT !.timeouts = @ \cup {"wait_running"} ]
            /\ BackendRaise(WaitRunningTimeout)
            /\ UNCHANGED <<warnings, run>>
       ELSE \E p \in PodReach(k8s.pod, k8s.sentinel) :
              LET v == WaitRunningVerdict(p)
              IN IF v = "sleep"
                 THEN /\ k8s' = [ k8s EXCEPT !.pod = p, !.polls = @ + 1 ]
                      /\ UNCHANGED <<pc, err, trace, warnings, run>>
                 ELSE /\ k8s' = [ k8s EXCEPT !.pod = p, !.polls = 0,
                                             !.early_terminal = (v = "terminal") ]
                      /\ warnings' = IF v = "terminal"
                                     THEN warnings (+) TerminalWarning(p)
                                     ELSE warnings
                      /\ run' = IF v = "terminal"
                                THEN [ run EXCEPT !.exit = ExitOf(p) ] ELSE run
                      /\ Goto(<<IF v = "terminal" THEN "pod_ended_early" ELSE "pod_ready">>,
                              "k_check_files")
    /\ UNCHANGED <<cfg, tmp, dataDir, outDir, userOut>>

\* bug: no file is looked for in the pod
FilesToCheckNone(local) == {}

\* for file in path.glob("**/*"): if file.is_file(): every local input file
FilesToCheck(local) == local

\* bug: a file reported missing is only warned about
MissingUploadsNone(local, present) == {}

\* the files _check_files_in_pod uploads: those whose ls in the pod answers
\* "No such file or directory"
MissingUploads(local, present) == local \ present

\* _check_files_in_pod: ls every local input file in the pod, upload the missing
\* ones; staged are the input files the volume holds afterwards
KubeCheckFiles ==
    /\ pc = "k_check_files"
    /\ IF dataDir = {}
       THEN /\ Goto(<<"files_checked">>, "k_stage")
            /\ UNCHANGED k8s
       ELSE IF ExecError(k8s.pod, "init-container") # NoErr
            THEN /\ BackendRaise(ExecError(k8s.pod, "init-container"))
                 /\ UNCHANGED k8s
            ELSE \E present \in SUBSET dataDir :
                   /\ k8s' = [ k8s EXCEPT !.checked = FilesToCheck(dataDir),
                                          !.present = present \cap FilesToCheck(dataDir),
                                          !.uploads = MissingUploads(FilesToCheck(dataDir),
                                                                     present),
                                          !.staged = present \cup
                                                     MissingUploads(FilesToCheck(dataDir),
                                                                    present) ]
                   /\ Goto(<<"files_checked">>, "k_stage")
    /\ UNCHANGED <<cfg, tmp, dataDir, outDir, userOut, warnings, run>>

\* legacy: _download_additional_files, upload of the parameters directory;
\* then tree, then touch /etc/content_verified in the init container
KubeStage ==
    /\ pc = "k_stage"
    /\ \E z \in KubeZenodoOutcomes(Legacy /\ cfg.additional_files) :
         IF z # "resolved"
         THEN /\ BackendRaise(z)
              /\ UNCHANGED k8s
         ELSE IF ExecError(k8s.pod, "init-container") # NoErr
              THEN /\ BackendRaise(ExecError(k8s.pod, "init-container"))
                   /\ UNCHANGED k8s
              ELSE /\ k8s' = [ k8s EXCEPT !.sentinel = TRUE ]
                   /\ Goto((IF Legacy THEN <<"additional_files_staged", "parameters_uploaded">>
                             ELSE <<>>) \o <<"sentinel_touched">>, "k_observe")
    /\ UNCHANGED <<cfg, tmp, dataDir, outDir, userOut, warnings, run>>

\* one reading of the pod in the loop of _observe_job_output
ObserveVerdict(pod) ==
    IF pod.phase = "Running" /\ pod.main = "running" THEN "running"
    ELSE IF Terminal(pod) THEN "terminal"
    ELSE "sleep"

\* what _observe_job_output does when its polls are used up: log an error, return ""
ObserveTimeout == NoErr

\* bug: a failed reading of the log ends the job
LogFetchErrorRaised == "ApiException"

\* except Exception as e: logger.error(...); return "": nothing is raised
LogFetchError == NoErr

LogFetchErrorLogged == SetToBag({ [ kind |-> "log_fetch_failed", about |-> <<>> ] })

\* _observe_job_output: wait for the main container, then read its log
KubeObserve ==
    /\ pc = "k_observe"
    /\ IF k8s.polls >= MaxPolls
       THEN /\ k8s' = [ k8s EXCEPT !.timeouts = @ \cup {"observe"}, !.polls = 0,
                                   !.log = "" ]
            /\ IF ObserveTimeout # NoErr
               THEN BackendRaise(ObserveTimeout)
               ELSE Goto(<<"log_given_up">>, "k_wait_done")
            /\ UNCHANGED warnings
       ELSE \E p \in PodReach(k8s.pod, k8s.sentinel), logRead \in BOOLEAN :
              LET v == ObserveVerdict(p)
              IN IF v = "sleep"
                 THEN /\ k8s' = [ k8s EXCEPT !.pod = p, !.polls = @ + 1 ]
                      /\ UNCHANGED <<pc, err, trace, warnings>>
                 ELSE \* a failed read_namespaced_pod_log is logged, the log is ""
                      /\ k8s' = [ k8s EXCEPT !.pod = p, !.polls = 0,
                                             !.log = IF logRead THEN "LOGS" ELSE "" ]
                      /\ warnings' = (IF v = "terminal"
                                      THEN warnings (+) TerminalWarning(p)
                                      ELSE warnings)
                                     (+) (IF logRead THEN EmptyBag ELSE LogFetchErrorLogged)
                      /\ IF ~logRead /\ LogFetchError # NoErr
                         THEN BackendRaiseAfter(<<"log_failed">>, LogFetchError)
                         ELSE Goto(<<IF logRead THEN "log_read" ELSE "log_failed">>,
                                   "k_wait_done")
    /\ UNCHANGED <<cfg, tmp, dataDir, outDir, userOut, run>>

\* bug: the loop that waits for the pod to end falls through when its polls are used up
WaitDoneTimeoutSilent == NoErr

\* what the loop that waits for the pod to end does when its polls are used up
WaitDoneTimeout == "RuntimeError"

\* for _ in range(300): ... if pod_phase in ("Succeeded", "Failed"): break
KubeWaitDone ==
    /\ pc = "k_wait_done"
    /\ IF k8s.polls >= MaxPolls
       THEN /\ k8s' = [ k8s EXCEPT !.timeouts = @ \cup {"wait_done"} ]
            /\ BackendRaise(WaitDoneTimeout)
            /\ UNCHANGED run
       ELSE \E p \in PodReach(k8s.pod, k8s.sentinel) :
              IF Terminal(p)
              THEN /\ k8s' = [ k8s EXCEPT !.pod = p, !.polls = 0 ]
                   /\ run' = [ run EXCEPT !.exit = ExitOf(p) ]
                   /\ Goto(<<"pod_ended">>, "k_finalizer")
              ELSE /\ k8s' = [ k8s EXCEPT !.pod = p, !.polls = @ + 1 ]
                   /\ UNCHANGED <<pc, err, trace, run>>
    /\ UNCHANGED <<cfg, tmp, dataDir, outDir, userOut, warnings>>

\* _create_finalizer_job: create the job, wait (bounded) for its pod
KubeFinalizer ==
    /\ pc = "k_finalizer"
    /\ \E appeared \in BOOLEAN :
         IF appeared
         THEN /\ k8s' = [ k8s EXCEPT !.finalizer = TRUE ]
              /\ Goto(<<"finalizer_created">>, "k_download")
         ELSE /\ k8s' = [ k8s EXCEPT !.finalizer = TRUE,
                                     !.timeouts = @ \cup {"finalizer_pod"} ]
              /\ BackendRaiseAfter(<<"finalizer_created">>, "RuntimeError")
    /\ UNCHANGED <<cfg, tmp, dataDir, outDir, userOut, warnings, run>>

\* _download_folder_from_pod from the finalizer pod, then touch its sentinel
KubeDownload ==
    /\ pc = "k_download"
    /\ \E running \in BOOLEAN, out \in ContainerOutputs :
         IF ~running
         THEN /\ BackendRaise("ApiException")
              /\ UNCHANGED <<k8s, outDir>>
         ELSE /\ outDir' = out
              /\ k8s' = [ k8s EXCEPT !.fin_sentinel = TRUE ]
              /\ Goto(<<"output_downloaded", "finalizer_released">>, "k_sanity")
    /\ UNCHANGED <<cfg, tmp, dataDir, userOut, warnings, run>>

\* _sanity_check_output on the downloaded output directory
KubeSanity ==
    /\ pc = "k_sanity"
    /\ SanityOutcome(dataDir, outDir)
    /\ IF SanityRaises(dataDir, outDir)
       THEN BackendRaiseAfter(<<"sanity_checked">>, "BraTSContainerException")
       ELSE BackendReturnAfter(<<"sanity_checked">>)
    /\ UNCHANGED <<cfg, tmp, dataDir, outDir, userOut, k8s>>

----------------------------------------------------------------------------
(* Output relocation: brats/core/brats_algorithm.py *)

Contains(name, part) ==
    \E o \in 1 .. (Len(name) - Len(part) + 1) : SubSeq(name, o, o + Len(part) - 1) = part

\* the caller's output_file path of a single inference
OutputFile == <<"output_file">>

\* bug: the directory of the output is taken to exist
MkdirParentsSkipped(parent) == parent

\* output_file.parent.mkdir(parents=True, exist_ok=True)
MkdirParents(parent) == "present"

\* shutil.move(algorithm_output, output_file) into a directory
MoveError(parent) == IF parent = "present" THEN NoErr ELSE "FileNotFoundError"

\* _process_single_output: the scratch files that can be taken as the output
SingleCandidates(task, out) ==
    IF task = "MISSING_MRI"
    THEN out    \* Path(tmp_output_folder).iterdir().__next__()
    ELSE { f \in out : f.name = OutputNameSchema(task, InternalName(0)) }

\* the error of a lookup that found nothing
LookupError(task) == IF task = "MISSING_MRI" THEN "StopIteration" ELSE "FileNotFoundError"

\* _process_batch_output: the scratch file taken for one internal name
BatchCandidates(task, out, internal) ==
    IF task = "MISSING_MRI"
    THEN { f \in out : Contains(f.name, internal) }    \* glob(f"*{internal_name}*")
    ELSE { f \in out : f.name = OutputNameSchema(task, internal) }

\* algorithm_output.name.split("-")[-1].split(".")[0]: the last of the
\* segments of the name
ParseModality(name) == name[Len(name)]

\* the IndexError of that expression: split returns the segments of the name,
\* of which there is always at least one
ParseModalityRaises(name) == Len(name) = 0

\* logger.warning(f"Could not extract modality from {algorithm_output.name}")
ModalityWarning(name) == [ kind |-> "modality_unparsed", about |-> name ]

\* bug: the output keeps the name the algorithm gave it
BatchOutputNameKept(task, external, src) == src

\* f"{external_name}-{modality}.nii.gz" / f"{external_name}.nii.gz"
BatchOutputName(task, external, src) ==
    IF task = "MISSING_MRI" /\ ~ParseModalityRaises(src) /\ ParseModality(src) # ""
    THEN external \o <<ParseModality(src)>>
    ELSE external

\* the loop of _process_batch_output from item k on: the moves happen one by one
\* and the first missing output ends the loop with an error
RECURSIVE MoveBatch(_, _, _, _, _, _, _)
MoveBatch(task, items, k, out, moved, parent, warned) ==
    IF k > Len(items) THEN [ out |-> out, moved |-> moved, err |-> NoErr, warned |-> warned ]
    ELSE LET cands == BatchCandidates(task, out, items[k][1])
         IN IF cands = {}
            THEN [ out |-> out, moved |-> moved, err |-> LookupError(task), warned |-> warned ]
            ELSE LET f == CHOOSE c \in cands : TRUE
                     w == IF task = "MISSING_MRI" /\ ParseModalityRaises(f.name)
                          THEN warned \cup { ModalityWarning(f.name) } ELSE warned
                 IN IF MoveError(parent) # NoErr
                    THEN [ out |-> out, moved |-> moved, err |-> MoveError(parent),
                           warned |-> w ]
                    ELSE MoveBatch(task, items, k + 1, out \ {f},
                                   moved \cup { [ name |-> BatchOutputName(task, items[k][2], f.name),
                                                  src |-> f.name ] }, parent, w)

\* the lookup of the algorithm output of a single inference raises before
\* anything is done in the caller's location
SingleLookupRaises(task, out) == task = "MISSING_MRI" /\ SingleCandidates(task, out) = {}

ProcessSingleOutput ==
    /\ cfg.call = "infer_single"
    /\ IF SingleLookupRaises(cfg.task, outDir)
       THEN /\ Raise(LookupError(cfg.task), "cleanup")
            /\ UNCHANGED <<outDir, userOut, run>>
       ELSE /\ run' = [ run EXCEPT !.out_parent = MkdirParents(@) ]
            /\ IF SingleCandidates(cfg.task, outDir) = {}
               THEN /\ Raise(LookupError(cfg.task), "cleanup")
                    /\ UNCHANGED <<outDir, userOut>>
               ELSE IF MoveError(MkdirParents(run.out_parent)) # NoErr
               THEN /\ Raise(MoveError(MkdirParents(run.out_parent)), "cleanup")
                    /\ UNCHANGED <<outDir, userOut>>
               ELSE \E f \in SingleCandidates(cfg.task, outDir) :
                      /\ outDir' = outDir \ {f}
                      /\ userOut' = userOut \cup { [ name |-> OutputFile, src |-> f.name ] }
                      /\ pc' = "cleanup"
                      /\ UNCHANGED err
    /\ UNCHANGED warnings

ProcessBatchOutput ==
    /\ cfg.call = "infer_batch"
    /\ run' = [ run EXCEPT !.out_parent = MkdirParents(@) ]
    /\ LET r == MoveBatch(cfg.task, run.name_map, 1, outDir, {},
                          MkdirParents(run.out_parent), {})
       IN /\ outDir' = r.out
          /\ userOut' = userOut \cup r.moved
          /\ warnings' = warnings (+) SetToBag(r.warned)
          /\ err' = r.err
          /\ pc' = "cleanup"

\* self._process_single_output(...) / self._process_batch_output(...)
Relocate ==
    /\ pc = "relocate"
    /\ ProcessSingleOutput \/ ProcessBatchOutput
    /\ trace' = Append(trace, "relocate")
    /\ UNCHANGED <<cfg, tmp, dataDir, k8s>>

----------------------------------------------------------------------------
(* Initial state *)

\* where a call starts
Entry(call) ==
    CASE Orchestrated(call) -> "start"
      [] call = "singularity" -> "s_prepare"
      [] call = "kubernetes" -> "k_pvc"

\* an inference call starts with nothing staged; a backend is called on an
\* input directory holding the standardized subject folders
Init ==
    /\ cfg \in Configs
    /\ pc = Entry(cfg.call)
    /\ err = NoErr
    /\ tmp = NoSetup
    /\ dataDir = IF Orchestrated(cfg.call) THEN {}
                 ELSE StandardizedFolders(cfg.nsubjects, -1)
    /\ outDir = {}
    /\ userOut = {}
    /\ trace = <<>>
    /\ warnings = EmptyBag
    /\ run = [ NoRun EXCEPT !.out_parent = IF cfg.parent_exists THEN "present" ELSE "absent" ]
    /\ k8s = NoK8s

----------------------------------------------------------------------------

Next ==
    \/ EnterInferenceSetup
    \/ Standardize
    \/ InvokeBackend
    \/ DockerPrepare
    \/ DockerRun
    \/ DockerSanity
    \/ SingularityPrepare
    \/ SingularityRun
    \/ SingularitySanity
    \/ SingularityFinally
    \/ KubePrepare
    \/ KubeCreateJob
    \/ KubeWaitRunning
    \/ KubeCheckFiles
    \/ KubeStage
    \/ KubeObserve
    \/ KubeWaitDone
    \/ KubeFinalizer
    \/ KubeDownload
    \/ KubeSanity
    \/ Relocate
    \/ ExitInferenceSetup

Spec == Init /\ [][Next]_vars

----------------------------------------------------------------------------
(* The resolution of the additional files on its own: one behaviour is one
   call of check_additional_files_path, cfg is the environment of the call *)

NoZenodo == [ response |-> NoResponse, result |-> ZenodoResult(NoErr, 0, FALSE, 0, FALSE) ]

\* the local folders of the record are held in dataDir
ZenodoInit ==
    /\ cfg \in ZenodoEnvs
    /\ pc = "z_request"
    /\ err = NoErr
    /\ tmp = NoSetup
    /\ dataDir = cfg.cache
    /\ outDir = {}
    /\ userOut = {}
    /\ trace = <<>>
    /\ warnings = EmptyBag
    /\ run = NoZenodo
    /\ k8s = NoK8s

\* logger.warning(f"Failed to fetch Zenodo metadata: {e}")
FetchWarning == SetToBag({ [ kind |-> "zenodo_unreachable", about |-> <<>>, subject |-> <<>> ] })

\* logger.warning("Zenodo server could not be reached. Using the latest downloaded weights.")
StaleWarning == SetToBag({ [ kind |-> "zenodo_stale", about |-> <<>>, subject |-> <<>> ] })

\* onerror of shutil.rmtree: logger.warning(f"Failed to delete {path}: {excinfo}")
RmtreeWarning == SetToBag({ [ kind |-> "zenodo_delete_failed", about |-> <<>>, subject |-> <<>> ] })

\* _get_zenodo_metadata_and_archive_url(record_id) and the unpacking of its result
ZenodoRequest ==
    /\ pc = "z_request"
    /\ run' = [ run EXCEPT !.response = ZenodoMetadata(cfg) ]
    /\ warnings' = IF cfg.reachable THEN warnings ELSE warnings (+) FetchWarning
    /\ trace' = Append(trace, "metadata_requested")
    /\ IF UnpackError(ZenodoMetadata(cfg)) # NoErr
       THEN /\ Raise(UnpackError(ZenodoMetadata(cfg)), "z_done")
       ELSE /\ pc' = "z_resolve"
            /\ UNCHANGED err
    /\ UNCHANGED <<cfg, tmp, dataDir, outDir, userOut, k8s>>

\* the rest of check_additional_files_path
ZenodoResolve ==
    /\ pc = "z_resolve"
    /\ run' = [ run EXCEPT !.result = CheckAdditionalFilesPath(cfg) ]
    /\ warnings' = (IF CheckAdditionalFilesPath(cfg).warned
                    THEN warnings (+) StaleWarning ELSE warnings)
                   (+) (IF CheckAdditionalFilesPath(cfg).deleted # 0 /\ ~cfg.rmtree_ok
                        THEN RmtreeWarning ELSE EmptyBag)
    /\ err' = CheckAdditionalFilesPath(cfg).err
    /\ trace' = Append(trace, IF CheckAdditionalFilesPath(cfg).downloaded
                              THEN "downloaded" ELSE "local_copy_used")
    /\ dataDir' = CacheAfter(cfg)
    /\ pc' = "z_done"
    /\ UNCHANGED <<cfg, tmp, outDir, userOut, k8s>>

ZenodoNext ==
    \/ ZenodoRequest
    \/ ZenodoResolve

ZenodoSpec == ZenodoInit /\ [][ZenodoNext]_vars

----------------------------------------------------------------------------
(* The construction of a job class: brats/core/brats_algorithm.py __init__ and
   brats/utils/algorithm_config.py load_algorithms.  One behaviour is one
   construction, cfg is the catalog file and the requested algorithm key *)

AlgorithmKeys == {"BraTS23_1", "BraTS23_2", "BraTS23_3"}

\* the catalog file: there is none, or it holds a document that does or does
\* not conform to the descriptor schema; the algorithms the document lists;
\* the value of the requested algorithm
Constructions ==
    [ file : {"missing", "nonconforming", "conforming"},
      catalog : SUBSET AlgorithmKeys,
      key : AlgorithmKeys \cup {"invalid_algorithm"} ]

\* the base class of an exception class
ExceptionBases ==
    [ c \in {"AlgorithmConfigException", "DaciteError", "FileNotFoundError", "OSError",
             "KeyError", "LookupError", "Exception"} |->
        CASE c = "AlgorithmConfigException" -> "DaciteError"
          [] c = "DaciteError" -> "Exception"
          [] c = "FileNotFoundError" -> "OSError"
          [] c = "OSError" -> "Exception"
          [] c = "KeyError" -> "LookupError"
          [] c = "LookupError" -> "Exception"
          [] c = "Exception" -> "BaseException" ]

\* except cls: catches the exceptions of class cls and of its subclasses
RECURSIVE IsInstance(_, _)
IsInstance(e, cls) ==
    \/ e = cls
    \/ e \in DOMAIN ExceptionBases /\ IsInstance(ExceptionBases[e], cls)

\* bug: the error of the schema conversion is not wrapped
LoadAlgorithmsErrorUnwrapped(file) ==
    IF file = "missing" THEN "FileNotFoundError"
    ELSE IF file = "nonconforming" THEN "DaciteError"
    ELSE NoErr

\* load_algorithms: the two except clauses
LoadAlgorithmsError(file) ==
    IF file = "missing" THEN "FileNotFoundError"
    ELSE IF file = "nonconforming" THEN "AlgorithmConfigException"
    ELSE NoErr

\* self.algorithm_list[algorithm.value]: the lookup in a dict
SelectError(catalog, key) == IF key \in catalog THEN NoErr ELSE "KeyError"

NoJob == [ algorithm_list |-> {}, algorithm |-> "none", constructed |-> FALSE ]

CatalogInit ==
    /\ cfg \in Constructions
    /\ pc = "c_load"
    /\ err = NoErr
    /\ tmp = NoSetup
    /\ dataDir = {}
    /\ outDir = {}
    /\ userOut = {}
    /\ trace = <<>>
    /\ warnings = EmptyBag
    /\ run = NoJob
    /\ k8s = NoK8s

\* self.algorithm_list = load_algorithms(file_path=algorithms_file_path)
LoadAlgorithms ==
    /\ pc = "c_load"
    /\ IF LoadAlgorithmsError(cfg.file) # NoErr
       THEN /\ Raise(LoadAlgorithmsError(cfg.file), "c_done")
            /\ UNCHANGED run
       ELSE /\ run' = [ run EXCEPT !.algorithm_list = cfg.catalog ]
            /\ pc' = "c_select"
            /\ UNCHANGED err
    /\ trace' = Append(trace, "catalog_loaded")
    /\ UNCHANGED <<cfg, tmp, dataDir, outDir, userOut, warnings, k8s>>

\* self.algorithm = self.algorithm_list[algorithm.value], the end of __init__
SelectAlgorithm ==
    /\ pc = "c_select"
    /\ IF SelectError(run.algorithm_list, cfg.key) # NoErr
       THEN /\ Raise(SelectError(run.algorithm_list, cfg.key), "c_done")
            /\ UNCHANGED run
       ELSE /\ run' = [ run EXCEPT !.algorithm = cfg.key, !.constructed = TRUE ]
            /\ pc' = "c_ready"
            /\ UNCHANGED err
    /\ trace' = Append(trace, "algorithm_selected")
    /\ UNCHANGED <<cfg, tmp, dataDir, outDir, userOut, warnings, k8s>>

\* an inference method is called on the constructed object
StartInference ==
    /\ pc = "c_ready"
    /\ run.constructed
    /\ pc' = "c_done"
    /\ trace' = Append(trace, "inference_started")
    /\ UNCHANGED <<cfg, err, tmp, dataDir, outDir, userOut, warnings, run, k8s>>

CatalogNext ==
    \/ LoadAlgorithms
    \/ SelectAlgorithm
    \/ StartInference

CatalogSpec == CatalogInit /\ [][CatalogNext]_vars

----------------------------------------------------------------------------
(* A single inference at the level of the modality files: the public
   infer_single of a job class, brats/core/segmentation_algorithms.py and
   brats/core/missing_mri_algorithms.py, and _infer_single of
   brats/core/brats_algorithm.py.  One behaviour is one call, cfg is the call:
   the job class, the year of the selected algorithm, the modalities the
   caller passes, those of them whose source file does not exist, and the
   subject_modality_separator of the algorithm *)

SingleJobs == {"MeningiomaSegmenter", "MissingMRI"}

\* the keys of the inputs dictionary, in its order
ModalityOrder == <<"t1c", "t1n", "t2f", "t2w">>

SingleCalls ==
    { c \in [ job : SingleJobs,
              year : {2023, 2024},
              supplied : SUBSET Modalities,
              absent : SUBSET Modalities,
              separator : {"-", "_"},
              log_file : {FALSE} ] : c.absent \subseteq c.supplied }

\* the error of the public infer_single before it calls _infer_single:
\* SegmentationAlgorithmWith4Modalities.infer_single declares t1c, t1n, t2f and
\* t2w as required parameters and reads no year; MissingMRI.infer_single
\* asserts that exactly three of its optional modalities are given
InferSingleError(job, year, supplied) ==
    IF job = "MeningiomaSegmenter"
    THEN IF supplied # Modalities THEN "TypeError" ELSE NoErr
    ELSE IF Cardinality(supplied) # 3 THEN "AssertionError" ELSE NoErr

\* f"{subject_id}{subject_modality_separator}{modality}.nii.gz"
StandardizedFileName(subject_id, separator, modality) ==
    <<subject_id, separator, modality, ".nii.gz">>

\* subject_folder / file name
InFolder(folder, file) == <<folder, file>>

\* bug: the loop goes on after a source file that does not exist
CopyErrorSkipped(modality, absent) == NoErr

\* shutil.copy(path, ...) of a source file
CopyError(modality, absent) == IF modality \in absent THEN "FileNotFoundError" ELSE NoErr

\* bug: the file names are built with "-" whatever the separator of the algorithm
StandardizedPathFixedSeparator(subject_id, separator, modality) ==
    InFolder(subject_id, StandardizedFileName(subject_id, "-", modality))

\* the destination of the copy of a modality
StandardizedPath(subject_id, separator, modality) ==
    InFolder(subject_id, StandardizedFileName(subject_id, separator, modality))

\* the loop over inputs.items() from the k-th modality on: the copies happen
\* one by one and the first source file that does not exist ends the loop
RECURSIVE CopyInputs(_, _, _, _, _, _)
CopyInputs(subject_id, separator, supplied, absent, k, files) ==
    IF k > Len(ModalityOrder) THEN [ files |-> files, err |-> NoErr ]
    ELSE IF ModalityOrder[k] \notin supplied
    THEN CopyInputs(subject_id, separator, supplied, absent, k + 1, files)
    ELSE IF CopyError(ModalityOrder[k], absent) # NoErr
    THEN [ files |-> files, err |-> CopyError(ModalityOrder[k], absent) ]
    ELSE CopyInputs(subject_id, separator, supplied, absent, k + 1,
                    files \cup { StandardizedPath(subject_id, separator, ModalityOrder[k]) })

\* logger.error(f"Error while standardizing files: {e}")
StandardizeErrorLogged ==
    SetToBag({ [ kind |-> "error", about |-> <<"Error while standardizing files">>,
                 subject |-> <<>> ] })

\* the warning of input_sanity_check about images that are not 240 x 240 x 155
ShapeWarning ==
    SetToBag({ [ kind |-> "input_shape", about |-> <<>>, subject |-> <<>> ] })

SingleInit ==
    /\ cfg \in SingleCalls
    /\ pc = "call"
    /\ err = NoErr
    /\ tmp = NoSetup
    /\ dataDir = {}
    /\ outDir = {}
    /\ userOut = {}
    /\ trace = <<>>
    /\ warnings = EmptyBag
    /\ run = NoRun
    /\ k8s = NoK8s

\* job.infer_single(t1c=..., ..., output_file=...) up to its call of _infer_single
InferSingle ==
    /\ pc = "call"
    /\ IF InferSingleError(cfg.job, cfg.year, cfg.supplied) # NoErr
       THEN /\ Raise(InferSingleError(cfg.job, cfg.year, cfg.supplied), "done")
            /\ UNCHANGED trace
       ELSE Goto(<<"inputs_accepted">>, "start")
    /\ UNCHANGED <<cfg, tmp, dataDir, outDir, userOut, warnings, run, k8s>>

\* _standardize_single_inputs(data_folder, subject_id, inputs, separator):
\* subject_folder.mkdir, the copies, then input_sanity_check
StandardizeSingleInputs ==
    /\ pc = "standardize"
    /\ LET r == CopyInputs(InternalName(0), cfg.separator, cfg.supplied, cfg.absent, 1, {})
       IN /\ dataDir' = { <<InternalName(0)>> } \cup r.files
          /\ IF r.err # NoErr
             THEN /\ warnings' = warnings (+) StandardizeErrorLogged
                  /\ Raise(r.err, "cleanup")
                  /\ trace' = Append(trace, "standardize_raised")
             ELSE /\ \E default_shape \in BOOLEAN :
                       warnings' = IF default_shape THEN warnings
                                   ELSE warnings (+) ShapeWarning
                  /\ Goto(<<"standardized">>, "backend")
    /\ UNCHANGED <<cfg, tmp, outDir, userOut, run, k8s>>

\* run_container(...) and _process_single_output(...) of _infer_single: the
\* rest of the body either returns or raises
RunSingle ==
    /\ pc = "backend"
    /\ \E e \in {NoErr, "BraTSContainerException"} :
         /\ err' = e
         /\ pc' = "cleanup"
         /\ trace' = Append(trace, "backend_invoked")
    /\ UNCHANGED <<cfg, tmp, dataDir, outDir, userOut, warnings, run, k8s>>

SingleNext ==
    \/ InferSingle
    \/ EnterInferenceSetup
    \/ StandardizeSingleInputs
    \/ RunSingle
    \/ ExitInferenceSetup

SingleSpec == SingleInit /\ [][SingleNext]_vars

----------------------------------------------------------------------------
(* The console handler of the package: brats/utils/logging.py.  One behaviour
   is a sequence of calls on the process-wide logger; run holds the module
   global _console_handler_id, the handlers of the logger and the id the
   logger gives to the next handler, outDir the lines written to stderr *)

\* the levels a handler or a message can have, with their severity order
LogLevels == <<"INFO", "WARNING", "ERROR">>

LevelNo(level) == CHOOSE n \in 1 .. Len(LogLevels) : LogLevels[n] = level

\* _console_handler_id = None: the ids the logger gives out here start at 1
NoHandlerId == 0

\* importing the package ends with logger.remove(): no handler is left
NoLogging == [ console_handler_id |-> NoHandlerId, handlers |-> {}, next_id |-> 1 ]

LoggingInit ==
    /\ cfg = [ sink |-> "stderr" ]
    /\ pc = "idle"
    /\ err = NoErr
    /\ tmp = NoSetup
    /\ dataDir = {}
    /\ outDir = {}
    /\ userOut = {}
    /\ trace = <<>>
    /\ warnings = EmptyBag
    /\ run = NoLogging
    /\ k8s = NoK8s

\* logger.add(sink, level=level): the handler gets the next id of the logger
LoggerAdd(handlers, id, sink, level) ==
    handlers \cup { [ id |-> id, sink |-> sink, level |-> level ] }

\* logger.remove(handler_id) raises ValueError when there is no such handler
LoggerRemoveError(handlers, id) ==
    IF \A h \in handlers : h.id # id THEN "ValueError" ELSE NoErr

\* try: logger.remove(_console_handler_id) except ValueError: pass
\* the error that leaves the try statement
RemoveTolerantly(handlers, id) ==
    IF id = NoHandlerId \/ LoggerRemoveError(handlers, id) = "ValueError" THEN NoErr
    ELSE LoggerRemoveError(handlers, id)

\* bug: the handler added before stays when a new one is added
LoggerRemoveNothing(handlers, id) == handlers

\* logger.remove(handler_id)
LoggerRemove(handlers, id) == { h \in handlers : h.id # id }

\* add_console_handler(level)
AddConsoleHandler ==
    /\ Len(trace) < MaxCalls
    /\ \E level \in {"INFO", "WARNING"} :
         /\ run' = [ run EXCEPT
                       !.handlers =
                           LoggerAdd(IF run.console_handler_id = NoHandlerId THEN @
                                     ELSE LoggerRemove(@, run.console_handler_id),
                                     run.next_id, cfg.sink, level),
                       !.console_handler_id = run.next_id,
                       !.next_id = @ + 1 ]
         /\ trace' = Append(trace, "add_console_handler")
    /\ err' = IF RemoveTolerantly(run.handlers, run.console_handler_id) # NoErr
              THEN RemoveTolerantly(run.handlers, run.console_handler_id) ELSE err
    /\ UNCHANGED <<cfg, pc, tmp, dataDir, outDir, userOut, warnings, k8s>>

\* remove_console_handler(): the ValueError of logger.remove is passed over
RemoveConsoleHandler ==
    /\ Len(trace) < MaxCalls
    /\ run' = [ run EXCEPT
                  !.handlers = IF run.console_handler_id = NoHandlerId THEN @
                               ELSE LoggerRemove(@, run.console_handler_id),
                  !.console_handler_id = NoHandlerId ]
    /\ trace' = Append(trace, "remove_console_handler")
    /\ err' = IF RemoveTolerantly(run.handlers, run.console_handler_id) # NoErr
              THEN RemoveTolerantly(run.handlers, run.console_handler_id) ELSE err
    /\ UNCHANGED <<cfg, pc, tmp, dataDir, outDir, userOut, warnings, k8s>>

\* logger.remove() without an id, as the import of the package and
\* _reset_logging_state_for_tests do: every handler goes, and when the caller
\* is not this module the global id is left behind
LoggerRemoveAll ==
    /\ Len(trace) < MaxCalls
    /\ \E reset \in BOOLEAN :
         run' = [ run EXCEPT !.handlers = {},
                             !.console_handler_id = IF reset THEN NoHandlerId ELSE @ ]
    /\ trace' = Append(trace, "logger_remove")
    /\ UNCHANGED <<cfg, pc, err, tmp, dataDir, outDir, userOut, warnings, k8s>>

\* logger.<level>(message): every handler whose level the message reaches
\* writes the message once to its sink
LogMessage ==
    /\ Len(trace) < MaxCalls
    /\ \E level \in {"INFO", "ERROR"} :
         outDir' = outDir \cup
                     { [ message |-> Len(trace) + 1, handler |-> h.id ] :
                         h \in { g \in run.handlers :
                                   g.sink = "stderr" /\ LevelNo(g.level) <= LevelNo(level) } }
    /\ trace' = Append(trace, "message")
    /\ UNCHANGED <<cfg, pc, err, tmp, dataDir, userOut, warnings, run, k8s>>

LoggingNext ==
    \/ AddConsoleHandler
    \/ RemoveConsoleHandler
    \/ LoggerRemoveAll
    \/ LogMessage

LoggingSpec == LoggingInit /\ [][LoggingNext]_vars

----------------------------------------------------------------------------
(* Two overlapping calls of run_job ensuring their claims:                 *)
(* brats/core/kubernetes.py _create_namespaced_pvc, one API call per step  *)

Invocations == {1, 2}

\* the pvc_name arguments of the two calls
PvcNames == {ClaimName, "pvc-b"}

PvcJobs == [ pvc_name : PvcNames, year : {2024, 2025} ]

NoListing == [ taken |-> FALSE, items |-> {} ]

\* bug: the listing is not looked at
PvcListedNever(listing, name) == FALSE

\* for pvc in pvc_list.items: if pvc.metadata.name == pvc_name: ... return
PvcListed(listing, name) == name \in listing

\* the claim an invocation ensures at its position: pvc_name, then pvc_name + "-output"
PvcWanted(i) == IF pc[i] \in {"list", "create"} THEN cfg[i].pvc_name
                ELSE cfg[i].pvc_name \o "-output"

\* where run_job goes on after a claim is ensured: algorithms after 2024 ensure
\* a second claim for the output
AfterEnsure(i) ==
    IF pc[i] \in {"list", "create"} /\ cfg[i].year > 2024 THEN "list_output" ELSE "ensured"

PvcInit ==
    /\ cfg \in [ Invocations -> PvcJobs ]
    /\ pc = [ i \in Invocations |-> "list" ]
    /\ err = [ i \in Invocations |-> NoErr ]
    /\ tmp = NoSetup
    /\ dataDir = {}
    /\ outDir = {}
    /\ userOut = {}
    /\ trace = <<>>
    /\ warnings = EmptyBag
    /\ run = [ i \in Invocations |-> NoListing ]
    /\ k8s \in { [ NoK8s EXCEPT !.pvcs = s ] : s \in SUBSET {ClaimName, OutputClaimName} }

\* core_v1_api.list_namespaced_persistent_volume_claim(namespace=namespace)
PvcList(i) ==
    /\ pc[i] \in {"list", "list_output"}
    /\ run' = [ run EXCEPT ![i] = [ taken |-> TRUE, items |-> k8s.pvcs ] ]
    /\ k8s' = [ k8s EXCEPT !.pvc_calls =
                    Append(@, [ by |-> i, name |-> PvcWanted(i), listed |-> k8s.pvcs ]) ]
    /\ IF PvcListed(k8s.pvcs, PvcWanted(i))
       THEN pc' = [ pc EXCEPT ![i] = AfterEnsure(i) ]
       ELSE pc' = [ pc EXCEPT ![i] = IF pc[i] = "list" THEN "create" ELSE "create_output" ]
    /\ UNCHANGED <<cfg, err, tmp, dataDir, outDir, userOut, trace, warnings>>

\* core_v1_api.create_namespaced_persistent_volume_claim(...): the cluster
\* refuses a claim whose name is taken, the ApiException is not caught
PvcCreate(i) ==
    /\ pc[i] \in {"create", "create_output"}
    /\ k8s' = [ k8s EXCEPT !.pvcs = @ \cup {PvcWanted(i)},
                           !.pvc_creates = Append(@, [ by |-> i, name |-> PvcWanted(i),
                                                       listed |-> run[i].items ]) ]
    /\ IF PvcWanted(i) \in k8s.pvcs
       THEN /\ err' = [ err EXCEPT ![i] = "ApiException" ]
            /\ pc' = [ pc EXCEPT ![i] = "raised" ]
       ELSE /\ pc' = [ pc EXCEPT ![i] = AfterEnsure(i) ]
            /\ UNCHANGED err
    /\ UNCHANGED <<cfg, tmp, dataDir, outDir, userOut, trace, warnings, run>>

PvcNext == \E i \in Invocations : PvcList(i) \/ PvcCreate(i)

PvcSpec == PvcInit /\ [][PvcNext]_vars

----------------------------------------------------------------------------
(* The creation of the job: brats/core/kubernetes.py _create_namespaced_job, *)
(* one step per phase of API calls.  A pod is its name and its creation      *)
(* timestamp; a deleted pod stays listed until the cluster has removed it.   *)

OldPods == { [ name |-> "old-a", created |-> 1 ], [ name |-> "old-b", created |-> 2 ] }

NewPod == [ name |-> "new", created |-> 3 ]

NoPodName == "None"

NoBody == [ volumes |-> <<>>, init_mounts |-> <<>>, main_mounts |-> <<>> ]

NoJobRun == [ body |-> NoBody, listing |-> {}, returned |-> NoPodName ]

JobCalls ==
    [ year : {2024, 2025}, shm_size : BOOLEAN, job_exists : BOOLEAN,
      old_pods : SUBSET OldPods ]

\* run_job: pv_mounts, one claim up to 2024, two claims afterwards
PvMounts(year, pvc_name) ==
    IF year <= 2024
    THEN << [ name |-> pvc_name, mount_path |-> "/data" ] >>
    ELSE << [ name |-> pvc_name, mount_path |-> "/input" ],
            [ name |-> pvc_name \o "-output", mount_path |-> "/output" ] >>

ShmMount == [ name |-> "shm", mount_path |-> "/dev/shm" ]

\* volume_mounts: one V1VolumeMount per entry of pv_mounts, then the shared
\* memory mount appended to the same list
VolumeMounts(pv_mounts, shm_size) ==
    pv_mounts \o (IF shm_size THEN <<ShmMount>> ELSE <<>>)

\* volumes = [V1Volume(name=pvc_name, ...claim_name=pvc) for pvc in pv_mounts.keys()],
\* then the memory volume
Volumes(pvc_name, pv_mounts, shm_size) ==
    [ i \in 1 .. Len(pv_mounts) |-> [ name |-> pvc_name, claim_name |-> pv_mounts[i].name ] ]
        \o (IF shm_size THEN << [ name |-> "shm", claim_name |-> "" ] >> ELSE <<>>)

\* the body of create_namespaced_job: the init container and the job container
\* are given the same list of mounts
JobBody(year, pvc_name, shm_size) ==
    [ volumes |-> Volumes(pvc_name, PvMounts(year, pvc_name), shm_size),
      init_mounts |-> VolumeMounts(PvMounts(year, pvc_name), shm_size),
      main_mounts |-> VolumeMounts(PvMounts(year, pvc_name), shm_size) ]

\* bug: the pod created first is returned
OldestPod(listing) ==
    CHOOSE p \in listing : \A q \in listing : q.created >= p.created

\* max(pod_list.items, key=lambda pod: pod.metadata.creation_timestamp)
LatestPod(listing) ==
    CHOOSE p \in listing : \A q \in listing : q.created <= p.created

JobInit ==
    /\ cfg \in JobCalls
    /\ pc = "j_list_jobs"
    /\ err = NoErr
    /\ tmp = NoSetup
    /\ dataDir = {}
    /\ outDir = {}
    /\ userOut = {}
    /\ trace = <<>>
    /\ warnings = EmptyBag
    /\ run = NoJobRun
    /\ k8s = [ job |-> cfg.job_exists, pods |-> cfg.old_pods, deleted |-> {},
               polls |-> 0, creates |-> 0 ]

\* list_namespaced_job, delete_namespaced_job of the job of the same name; an
\* error of the API is not caught
JobDeleteOld ==
    /\ pc = "j_list_jobs"
    /\ IF k8s.job
       THEN \E ok \in BOOLEAN :
              IF ok
              THEN /\ k8s' = [ k8s EXCEPT !.job = FALSE ]
                   /\ trace' = trace \o <<"delete_job">>
                   /\ pc' = "j_list_pods"
                   /\ UNCHANGED err
              ELSE /\ trace' = trace \o <<"delete_job">>
                   /\ Raise("ApiException", "raised")
                   /\ UNCHANGED k8s
       ELSE /\ pc' = "j_list_pods"
            /\ UNCHANGED <<k8s, trace, err>>
    /\ UNCHANGED <<cfg, tmp, dataDir, outDir, userOut, warnings, run>>

\* list_namespaced_pod(label_selector), delete_namespaced_pod of every listed
\* pod; a failed deletion is logged
JobDeletePods ==
    /\ pc = "j_list_pods"
    /\ \E failed \in SUBSET k8s.pods :
         /\ k8s' = [ k8s EXCEPT !.deleted = k8s.pods \ failed ]
         /\ warnings' = warnings (+) SetToBag({ [ kind |-> "pod_delete_failed",
                                                  about |-> <<p.name>> ] : p \in failed })
    /\ trace' = trace \o <<"list_pods">> \o [ i \in 1 .. Cardinality(k8s.pods) |-> "delete_pod" ]
    /\ pc' = "j_create"
    /\ UNCHANGED <<cfg, err, tmp, dataDir, outDir, userOut, run>>

\* batch_v1_api.create_namespaced_job(namespace, body)
JobCreate ==
    /\ pc = "j_create"
    /\ run' = [ run EXCEPT !.body = JobBody(cfg.year, ClaimName, cfg.shm_size) ]
    /\ k8s' = [ k8s EXCEPT !.job = TRUE, !.creates = @ + 1 ]
    /\ trace' = trace \o <<"create_job">>
    /\ pc' = "j_poll"
    /\ UNCHANGED <<cfg, err, tmp, dataDir, outDir, userOut, warnings>>

\* for _ in range(60): list_namespaced_pod; if pod_list.items: ... break;
\* afterwards: if pod_name is None: raise RuntimeError
JobPoll ==
    /\ pc = "j_poll"
    /\ IF k8s.polls >= MaxPolls
       THEN /\ Raise("RuntimeError", "raised")
            /\ UNCHANGED <<k8s, run, trace>>
       ELSE \E appeared \in BOOLEAN, gone \in SUBSET k8s.deleted :
              LET listing == (k8s.pods \ gone) \cup (IF appeared THEN {NewPod} ELSE {})
              IN /\ trace' = trace \o <<"list_pods">>
                 /\ IF listing # {}
                    THEN /\ run' = [ run EXCEPT !.listing = listing,
                                                !.returned = LatestPod(listing).name ]
                         /\ k8s' = [ k8s EXCEPT !.pods = listing, !.deleted = @ \ gone,
                                                !.polls = @ + 1 ]
                         /\ pc' = "returned"
                    ELSE /\ k8s' = [ k8s EXCEPT !.pods = listing, !.deleted = @ \ gone,
                                                !.polls = @ + 1 ]
                         /\ UNCHANGED <<pc, run>>
                 /\ UNCHANGED err
    /\ UNCHANGED <<cfg, tmp, dataDir, outDir, userOut, warnings>>

JobNext == JobDeleteOld \/ JobDeletePods \/ JobCreate \/ JobPoll

JobSpec == JobInit /\ [][JobNext]_vars

----------------------------------------------------------------------------
(* Two overlapping calls of the sandboxed backend for the same image:      *)
(* brats/core/singularity.py run_container from the overlay on.  The       *)
(* overlay path is derived from the image path, so both calls use the same *)
(* file; outDir holds the files next to the image.                         *)

OverlayFile == <<"image_overlay", "img">>

NoOverlayRun == [ overlay_created |-> FALSE, attached |-> FALSE ]

\* how the container of an invocation ends: normally, with a non-zero exit
\* status, or with outputs the sanity check refuses
RunEndings == {NoErr, "CalledProcessError", "BraTSContainerException"}

OverlayInit ==
    /\ cfg \in [ existed : BOOLEAN ]
    /\ pc = [ i \in Invocations |-> "o_check" ]
    /\ err = [ i \in Invocations |-> NoErr ]
    /\ tmp = NoSetup
    /\ dataDir = {}
    /\ outDir = IF cfg.existed THEN {OverlayFile} ELSE {}
    /\ userOut = {}
    /\ trace = <<>>
    /\ warnings = EmptyBag
    /\ run = [ i \in Invocations |-> NoOverlayRun ]
    /\ k8s = NoK8s

\* if not overlay_path.exists():
OverlayCheck(i) ==
    /\ pc[i] = "o_check"
    /\ pc' = [ pc EXCEPT ![i] = IF OverlayFile \in outDir THEN "o_start" ELSE "o_create" ]
    /\ UNCHANGED <<cfg, err, tmp, dataDir, outDir, userOut, trace, warnings, run, k8s>>

\* subprocess.run(["singularity", "overlay", "create", ...], check=True);
\* overlay_created = True.  The command fails on a file that exists.
OverlayCreate(i) ==
    /\ pc[i] = "o_create"
    /\ IF OverlayFile \in outDir
       THEN /\ err' = [ err EXCEPT ![i] = "CalledProcessError" ]
            /\ pc' = [ pc EXCEPT ![i] = "o_done" ]
            /\ UNCHANGED <<outDir, run, trace>>
       ELSE /\ outDir' = outDir \cup {OverlayFile}
            /\ run' = [ run EXCEPT ![i].overlay_created = TRUE ]
            /\ trace' = Append(trace, <<i, "overlay_created">>)
            /\ pc' = [ pc EXCEPT ![i] = "o_start" ]
            /\ UNCHANGED err
    /\ UNCHANGED <<cfg, tmp, dataDir, userOut, warnings, k8s>>

\* executor = Client.run(image, options=[..., "--overlay", overlay_path], ...):
\* the container starts with the overlay attached, or fails without it
OverlayStart(i) ==
    /\ pc[i] = "o_start"
    /\ IF OverlayFile \in outDir
       THEN /\ run' = [ run EXCEPT ![i].attached = TRUE ]
            /\ pc' = [ pc EXCEPT ![i] = "o_running" ]
            /\ UNCHANGED err
       ELSE /\ err' = [ err EXCEPT ![i] = "CalledProcessError" ]
            /\ pc' = [ pc EXCEPT ![i] = "o_finally" ]
            /\ UNCHANGED run
    /\ UNCHANGED <<cfg, tmp, dataDir, outDir, userOut, trace, warnings, k8s>>

\* for line in executor: ...; _sanity_check_output(...): the container ends
OverlayEnd(i) ==
    /\ pc[i] = "o_running"
    /\ \E e \in RunEndings : err' = [ err EXCEPT ![i] = e ]
    /\ run' = [ run EXCEPT ![i].attached = FALSE ]
    /\ pc' = [ pc EXCEPT ![i] = "o_finally" ]
    /\ UNCHANGED <<cfg, tmp, dataDir, outDir, userOut, trace, warnings, k8s>>

\* finally: if overlay_created: overlay_path.unlink(); FileNotFoundError is passed
OverlayFinally(i) ==
    /\ pc[i] = "o_finally"
    /\ IF run[i].overlay_created
       THEN /\ outDir' = outDir \ {OverlayFile}
            /\ trace' = Append(trace, <<i, "overlay_unlinked">>)
       ELSE UNCHANGED <<outDir, trace>>
    /\ pc' = [ pc EXCEPT ![i] = "o_done" ]
    /\ UNCHANGED <<cfg, err, tmp, dataDir, userOut, warnings, run, k8s>>

OverlayNext ==
    \E i \in Invocations :
        \/ OverlayCheck(i)
        \/ OverlayCreate(i)
        \/ OverlayStart(i)
        \/ OverlayEnd(i)
        \/ OverlayFinally(i)

OverlaySpec == OverlayInit /\ [][OverlayNext]_vars

----------------------------------------------------------------------------
(* Properties *)

Last(seq) == seq[Len(seq)]

Has(label) == \E i \in 1 .. Len(trace) : trace[i] = label

\* position of the first occurrence of a step, 0 if it did not happen
Pos(label) ==
    IF Has(label) THEN CHOOSE i \in 1 .. Len(trace) :
                           trace[i] = label /\ \A j \in 1 .. (i - 1) : trace[j] # label
    ELSE 0

Count(label) == Cardinality({ i \in 1 .. Len(trace) : trace[i] = label })

InferenceCall == Orchestrated(cfg.call)

\* the backend call has just ended
BackendJustEnded ==
    /\ trace # <<>>
    /\ Last(trace) \in {"backend_returned", "backend_raised"}

\* the output sanity check has run and nothing has touched the directories since
JustChecked ==
    /\ run.sanity.ran
    /\ pc = "s_finally" \/ BackendJustEnded

CanonicalInputCount == Cardinality({ e \in dataDir : e[1] = "BraTS" })

\* C1: whenever an inference call ends with a fatal error, the caller's output
\* location holds no output file written by that call (for a batch: not even
\* the outputs of some of the subjects).
C1_NoOutputLeftOnError ==
    (InferenceCall /\ pc \in {"cleanup", "done"} /\ err # NoErr) => userOut = {}

C3_StepOrder ==
    InferenceCall =>
        /\ trace # <<>> => trace[1] = "scratch_created"
        /\ \A l \in {"scratch_created", "standardized", "standardize_raised",
                      "backend_invoked", "relocate", "scratch_destroyed"} : Count(l) <= 1
        /\ Has("standardized") \/ Has("standardize_raised") => Pos("scratch_created") = 1
        /\ Has("backend_invoked") =>
              /\ Has("standardized") /\ Pos("standardized") < Pos("backend_invoked")
              /\ ~Has("standardize_raised")
        /\ Has("relocate") =>
              /\ Has("backend_returned") /\ Pos("backend_returned") < Pos("relocate")
              /\ Pos("backend_invoked") < Pos("backend_returned")
              /\ ~Has("backend_raised")
        /\ Has("scratch_destroyed") => Last(trace) = "scratch_destroyed"
        /\ run.launched => Has("standardized")

C3_Witness ==
    /\ InferenceCall /\ pc = "done" /\ err = NoErr
    /\ trace = <<"scratch_created", "standardized", "backend_invoked", "backend_returned",
                 "relocate", "scratch_destroyed">>

\* C4: in each backend, when the algorithm container or job exits with a
\* non-zero status (remote: the job pod ends Failed) the backend run raises
\* the uniform container/job execution error.
C4_NonZeroExitRaisesUniformError ==
    (BackendJustEnded \/ (~InferenceCall /\ pc = "done")) /\ run.exit = 1
        => err = "BraTSContainerException"

\* C5: the output sanity check raises the execution error exactly when the
\* output directory holds fewer files than the input directory holds entries
\* named after the canonical convention; other input entries are not counted.
C5_SanityCountRule ==
    JustChecked =>
        /\ run.sanity.raised <=> Cardinality(outDir) < CanonicalInputCount
        /\ run.sanity.raised <=> err = "BraTSContainerException"
        /\ ~run.sanity.raised <=> err = NoErr
        /\ run.sanity.ninputs = CanonicalInputCount

C5_Witness ==
    /\ JustChecked /\ ~run.sanity.raised
    /\ <<"results", "cache">> \in dataDir
    /\ Cardinality(outDir) = CanonicalInputCount
    /\ Cardinality(outDir) < Cardinality(dataDir)

\* C6: when the output count suffices, all-zero outputs never fail the check:
\* it logs exactly one warning per all-zero output file and none for the
\* others, and returns normally.
C6_AllZeroOnlyWarns ==
    (JustChecked /\ Cardinality(outDir) >= CanonicalInputCount) =>
        /\ err = NoErr
        /\ pc # "s_finally" => Last(trace) = "backend_returned"
        /\ \A f \in outDir :
              CopiesIn(ZeroWarning(f.name), warnings) = IF f.content = "zero" THEN 1 ELSE 0
        /\ \A w \in BagToSet(warnings) :
              w.kind = "only_zeros" => \E f \in outDir : f.name = w.about

C6_Witness ==
    /\ JustChecked /\ err = NoErr
    /\ CanonicalInputCount = 2 /\ Cardinality(outDir) = 2
    /\ \E f, g \in outDir : f.content = "zero" /\ g.content = "nonzero"

\* C7: the decision table of the device negotiation.
C7_DeviceTable ==
    run.device.cause # "not_negotiated" =>
        /\ (~cfg.cuda_available /\ ~cfg.force_cpu /\ ~cfg.cpu_compatible) =>
              (run.device.raised /\ run.device.cause = "no_gpu")
        /\ (cfg.cuda_available /\ cfg.force_cpu /\ ~cfg.cpu_compatible) =>
              (run.device.raised /\ run.device.cause = "forced_cpu")
        /\ ((~cfg.cuda_available \/ cfg.force_cpu) /\ cfg.cpu_compatible) =>
              (~run.device.raised /\ run.device.requests = <<>>)
        /\ (cfg.cuda_available /\ ~cfg.force_cpu) =>
              /\ ~run.device.raised
              /\ Len(run.device.requests) = 1
              /\ run.device.requests[1].device_ids = <<cfg.cuda_devices>>
        /\ (run.device.raised /\ (BackendJustEnded \/ ~InferenceCall)) =>
              err = "AlgorithmNotCPUCompatibleException"

C7_Witness ==
    /\ cfg.cuda_available /\ ~cfg.force_cpu /\ cfg.cuda_devices = "1"
    /\ Len(run.device.requests) = 1

\* C8: in all three backends the CPU-incompatibility error is raised before
\* anything is launched: when the negotiation fails no container has been
\* started and no remote job resource has been created by the call.
C8_NoLaunchOnCpuError ==
    (run.device.raised \/ err = "AlgorithmNotCPUCompatibleException") =>
        /\ ~run.launched
        /\ ~k8s.job /\ ~k8s.finalizer /\ k8s.pod = NoPod

C8_Witness ==
    /\ cfg.call = "kubernetes" /\ pc = "done"
    /\ err = "AlgorithmNotCPUCompatibleException"
    /\ k8s.pvc_creates = <<ClaimName>>

\* the loops of run_job and of the log observer that poll the job pod
PodLoops == {"wait_running", "observe", "wait_done"}

RECURSIVE Unlisted(_)
Unlisted(calls) ==
    IF calls = <<>> THEN <<>>
    ELSE (IF Head(calls).name \in Head(calls).listed THEN <<>> ELSE <<Head(calls).name>>)
         \o Unlisted(Tail(calls))

\* C11: the ensure step invokes the claim-creation call if and only if no claim
\* with the requested name is listed in the namespace: the creation calls are,
\* in order, exactly the ensure calls whose listing lacks the name.
C11_PvcCreatedIffNotListed ==
    k8s.pvc_creates = Unlisted(k8s.pvc_calls)

C11_Witness ==
    /\ Len(k8s.pvc_calls) = 2
    /\ k8s.pvc_calls[1].listed = {OutputClaimName}
    /\ k8s.pvc_creates = <<ClaimName>>

\* the claims a job of the algorithm needs
RequiredClaims == IF Legacy THEN <<ClaimName>> ELSE <<ClaimName, OutputClaimName>>

EnsuredClaims == [ i \in 1 .. Len(k8s.pvc_calls) |-> k8s.pvc_calls[i].name ]

\* C12: the remote backend ensures exactly one claim (the input/working claim)
\* for algorithms of year 2024 or earlier and additionally a second claim
\* named "<pvc_name>-output" for newer algorithms; all required claims are
\* ensured, and exist, before the job resource is created.
C12_ClaimsEnsuredBeforeJob ==
    /\ Len(EnsuredClaims) <= Len(RequiredClaims)
    /\ EnsuredClaims = SubSeq(RequiredClaims, 1, Len(EnsuredClaims))
    /\ cfg.year <= 2024 => Len(EnsuredClaims) <= 1
    /\ (k8s.job \/ Has("job_created")) =>
          /\ EnsuredClaims = RequiredClaims
          /\ \A i \in 1 .. Len(RequiredClaims) : RequiredClaims[i] \in k8s.pvcs
          /\ cfg.year > 2024 => EnsuredClaims = <<"pvc", "pvc-output">>
          /\ Pos("claim_ensured") < Pos("job_created")
          /\ cfg.year > 2024 =>
                /\ Pos("claim_ensured") < Pos("output_claim_ensured")
                /\ Pos("output_claim_ensured") < Pos("job_created")

C12_Witness ==
    /\ cfg.year > 2024 /\ k8s.job
    /\ k8s.pvc_creates = <<"pvc", "pvc-output">>

\* a batch inference has returned normally
BatchSucceeded == cfg.call = "infer_batch" /\ pc = "done" /\ err = NoErr

\* the file is an output the backend produced for the internal id
ProducedFor(f, internal) == StartsWith(f.src, internal)

\* C13 as claimed: after a successful batch inference the output folder holds
\* a file "<Ei>.nii.gz" for every external name Ei, which is the output the
\* backend produced for the internal id mapped to Ei, and no file named after
\* an internal id.
C13_OutputsNamedExternally ==
    BatchSucceeded =>
        /\ \A k \in 1 .. cfg.nsubjects :
              \E f \in userOut : /\ f.name = SubjectName(cfg.nsubjects, k)
                                 /\ ProducedFor(f, InternalName(k - 1))
        /\ \A f \in userOut : \A i \in Subjects : f.name # InternalName(i)

\* C13 amended: after a successful batch inference the output folder holds
\* exactly one file per subject, the output the backend produced for the
\* internal id mapped to Ei; it is named "<Ei>.nii.gz", for the missing-MRI
\* task "<Ei>-<modality>.nii.gz" with the modality taken from the name of the
\* algorithm's file; a file bears an internal id only when that id is itself
\* the external name of its subject.
C13_OutputsFollowNameMap ==
    BatchSucceeded =>
        /\ Cardinality(userOut) = cfg.nsubjects
        /\ \A k \in 1 .. cfg.nsubjects :
              \E f \in userOut :
                 /\ ProducedFor(f, InternalName(k - 1))
                 /\ f.name = IF cfg.task = "MISSING_MRI"
                              THEN SubjectName(cfg.nsubjects, k) \o <<Last(f.src)>>
                              ELSE SubjectName(cfg.nsubjects, k)
        /\ \A f \in userOut : \A i \in Subjects :
              f.name = InternalName(i) =>
                 \E k \in 1 .. cfg.nsubjects :
                    /\ SubjectName(cfg.nsubjects, k) = InternalName(i)
                    /\ ProducedFor(f, InternalName(k - 1))

C13_Witness ==
    /\ BatchSucceeded /\ cfg.nsubjects = 2 /\ cfg.task = "MISSING_MRI"
    /\ \E f \in userOut : f.name = <<"B", "t2w">> /\ f.src = InternalName(1) \o <<"t2w">>

\* C14: for a batch of N subject folders the standardization returns a name map
\* with exactly N entries; its keys are the id schema applied to 0 .. N-1 in
\* listing order and its values are the names of the subject folders.
C14_NameMapOfBatch ==
    (cfg.call = "infer_batch" /\ Has("standardized")) =>
        /\ Len(run.name_map) = cfg.nsubjects
        /\ \A k \in 1 .. Len(run.name_map) :
              /\ run.name_map[k][1] = <<"BraTS", "GLI", IdDigits[k], "000">>
              /\ run.name_map[k][2] = SubjectName(cfg.nsubjects, k)
        /\ \A j, k \in 1 .. Len(run.name_map) :
              run.name_map[j][1] = run.name_map[k][1] => j = k

C14_Witness ==
    /\ cfg.call = "infer_batch" /\ Has("standardized")
    /\ run.name_map = << <<InternalName(0), <<"A">> >>, <<InternalName(1), <<"B">> >> >>

\* a single inference has returned normally
SingleSucceeded == cfg.call = "infer_single" /\ pc = "done" /\ err = NoErr

C16_ZeroWarningNamesSubject ==
    cfg.call = "infer_batch" =>
        \A w \in BagToSet(warnings) :
            w.kind = "only_zeros" =>
                \A k \in 1 .. Len(run.name_map) :
                    StartsWith(w.about, run.name_map[k][1]) => w.subject = run.name_map[k][2]

\* C17: the container/job execution error raised on a non-zero exit carries
\* the full captured container log text in the raised error itself.
C17_ExitErrorCarriesLog ==
    (run.exit > 0 /\ err = "BraTSContainerException" /\ ~run.sanity.ran) =>
        \E i \in 1 .. Len(run.err_text) : run.err_text[i] = run.log

\* the local folders that hold a usable (non-empty) copy
UsableCopies == { v \in Versions : cfg.cache[v] = "full" }

\* C18 (of ZenodoSpec): when the artifact repository is unreachable, the
\* resolution returns the latest usable local copy with only a warning if
\* there is one, and raises the repository-unreachable error only if there is
\* none.
C18_UnreachableFallsBackToCache ==
    (pc = "z_done" /\ ~cfg.reachable) =>
        IF UsableCopies # {}
        THEN /\ err = NoErr
             /\ run.result.path = NewestFolder(UsableCopies)
        ELSE err = "ZenodoException"

\* C19 (of CatalogSpec): constructing a job class with an algorithm key that
\* is not in the loaded catalog raises the structured configuration error at
\* construction time, before any inference work can be started.
C19_UnknownKeyRaisesConfigError ==
    (cfg.file = "conforming" /\ cfg.key \notin cfg.catalog) =>
        /\ ~run.constructed /\ ~Has("inference_started")
        /\ pc = "c_done" => IsInstance(err, "AlgorithmConfigException")

\* the two errors of the loading of a catalog
LoadErrors == {"FileNotFoundError", "AlgorithmConfigException"}

LocalBackend == cfg.call \in {"infer_single", "infer_batch", "singularity"}

\* C23: the direct backend and the sandboxed backend select the mount and
\* argument convention from the descriptor's year: up to 2024 the four-slot
\* legacy volume mapping and a command prefixed with 'infer', later exactly
\* the two bind mounts input and output and no 'infer' prefix.
C23_ConventionFollowsYear ==
    (LocalBackend /\ run.launched) =>
        IF cfg.year <= 2024
        THEN /\ run.volumes = <<"/mlcube_io0", "/mlcube_io1", "/mlcube_io2", "/mlcube_io3">>
             /\ run.command # <<>> /\ run.command[1] = "infer"
        ELSE /\ run.volumes = <<"/input", "/output">>
             /\ \A i \in 1 .. Len(run.command) : run.command[i] # "infer"

\* C24: if a log file is supplied, the file log handler is registered at job
\* start and is no longer registered once the inference call has returned or
\* raised, on every exit path; if no log file is supplied, no handler is added
\* or removed.
C24_LogHandlerScopedToCall ==
    InferenceCall =>
        IF cfg.log_file
        THEN /\ pc \notin {"start", "done"} => tmp.handler = "registered"
             /\ pc = "done" => tmp.handler = "removed"
        ELSE tmp.handler = "never"

\* C25: a failure to remove a scratch directory at job end is only logged as
\* a warning: whatever its cause, it raises nothing out of the inference call
\* and leaves the outcome of the job as the body left it.
C25_RemovalFailureOnlyWarns ==
    [][ (InferenceCall /\ pc = "cleanup" /\ pc' = "done") =>
            /\ err' = err
            /\ \A d \in run'.rm_failed :
                   BagIn([ kind |-> "rm_failed", about |-> <<d>> ], warnings') ]_vars

\* C26: in a cross-modality-synthesis batch each subject's output is relocated
\* to "<external>-<modality>.nii.gz", the modality being the trailing segment
\* of the name of the produced file; when that segment is no modality, a
\* warning is logged and the output is named "<external>.nii.gz".
C26_SynthesisOutputNaming ==
    (cfg.call = "infer_batch" /\ cfg.task = "MISSING_MRI" /\ Has("relocate")) =>
        \A f \in userOut : \A k \in 1 .. Len(run.name_map) :
            ProducedFor(f, run.name_map[k][1]) =>
                IF Last(f.src) \in Modalities
                THEN f.name = run.name_map[k][2] \o <<Last(f.src)>>
                ELSE /\ f.name = run.name_map[k][2]
                     /\ BagIn(ModalityWarning(f.src), warnings)

\* the modalities the year-gated challenge allows: the single contrast-enhanced
\* one from 2024 on, all four before
AllowedModalities(year) == IF year >= 2024 THEN {"t1c"} ELSE Modalities

\* C21 (of SingleSpec): for the year-gated challenge infer_single checks the
\* supplied modalities against the year of the selected algorithm and raises a
\* validation error before any scratch directory is created or any file is
\* copied; with the allowed modalities the call proceeds to inference.
C21_ModalitiesCheckedAgainstYear ==
    (cfg.job = "MeningiomaSegmenter" /\ pc # "call") =>
        IF cfg.supplied # AllowedModalities(cfg.year)
        THEN /\ pc = "done" /\ err = "ValueError"
             /\ ~Has("scratch_created") /\ dataDir = {}
        ELSE /\ err \notin {"ValueError", "TypeError"}
             /\ pc = "done" => Has("scratch_created")

\* the call got as far as the copy of a source file that does not exist
MissingSourceHit == Has("scratch_created") /\ pc \notin {"standardize"} /\ cfg.absent # {}

C27_OneFilePerModality ==
    Has("standardized") =>
        /\ <<InternalName(0)>> \in dataDir
        /\ \A m \in cfg.supplied :
              <<InternalName(0), <<InternalName(0), cfg.separator, m, ".nii.gz">> >> \in dataDir
        /\ Cardinality(dataDir) = 1 + Cardinality(cfg.supplied)

C27_Witness ==
    /\ Has("standardized") /\ cfg.job = "MissingMRI" /\ cfg.separator = "_"
    /\ cfg.supplied = {"t1c", "t2f", "t2w"}
    /\ <<InternalName(0), <<InternalName(0), "_", "t2w", ".nii.gz">> >> \in dataDir

\* the console handlers registered with the logger
ConsoleHandlers == { h \in run.handlers : h.sink = "stderr" }

\* C28 (of LoggingSpec): after any sequence of add_console_handler and
\* remove_console_handler calls at most one console handler is registered (a
\* repeated add replaces the handler, so a message is emitted at most once),
\* and remove_console_handler never raises, also when no console handler is
\* registered.
C28_ConsoleHandlerSingleton ==
    /\ Cardinality(ConsoleHandlers) <= 1
    /\ \A m \in 1 .. Len(trace) : Cardinality({ l \in outDir : l.message = m }) <= 1
    /\ err = NoErr
    /\ (trace # <<>> /\ Last(trace) = "remove_console_handler") =>
           /\ run.console_handler_id = NoHandlerId
           /\ ConsoleHandlers = {}

C28_Witness ==
    /\ Len(trace) = 4
    /\ trace[1] = "add_console_handler" /\ trace[2] = "add_console_handler"
    /\ trace[3] = "message" /\ trace[4] = "remove_console_handler"
    /\ Cardinality({ l \in outDir : l.message = 3 }) = 1

\* the main container of the job pod has started
MainStarted == k8s.pod.phase \in {"Running", "Succeeded"}

\* C29: in the remote backend the sentinel of the init container is touched
\* only after every local input file has been verified present in the pod
\* (the missing ones uploaded) and, for legacy algorithms, after the in-pod
\* download of the additional files and the upload of the parameters
\* directory; the main container, which is blocked on the sentinel, never
\* starts before its inputs are staged.
C29_SentinelAfterStaging ==
    cfg.call = "kubernetes" =>
        /\ k8s.sentinel =>
              /\ Has("files_checked") /\ Pos("files_checked") < Pos("sentinel_touched")
              /\ k8s.staged = dataDir
              /\ Legacy =>
                    /\ Has("additional_files_staged") /\ Has("parameters_uploaded")
                    /\ Pos("files_checked") < Pos("additional_files_staged")
                    /\ Pos("additional_files_staged") < Pos("parameters_uploaded")
                    /\ Pos("parameters_uploaded") < Pos("sentinel_touched")
        /\ MainStarted => k8s.sentinel /\ k8s.staged = dataDir

C29_Witness ==
    /\ cfg.call = "kubernetes" /\ Legacy /\ cfg.nsubjects = 2
    /\ MainStarted /\ k8s.sentinel
    /\ k8s.uploads = { InternalName(1) } /\ k8s.staged = dataDir

\* C30: on the cluster the finalizer job is created only after the pod of the
\* main job has been read in the phase Succeeded or Failed; the output is
\* downloaded from the finalizer pod before the sentinel of the finalizer is
\* touched; the outputs are checked only after that download
C30_FinalizerAfterTerminalPod ==
    cfg.call = "kubernetes" =>
        /\ k8s.finalizer =>
              /\ k8s.pod.phase \in {"Succeeded", "Failed"}
              /\ Has("pod_ended") /\ Has("finalizer_created")
              /\ Pos("pod_ended") < Pos("finalizer_created")
        /\ Has("finalizer_created") => k8s.finalizer
        /\ k8s.fin_sentinel =>
              /\ Has("output_downloaded") /\ Has("finalizer_released")
              /\ Pos("finalizer_created") < Pos("output_downloaded")
              /\ Pos("output_downloaded") < Pos("finalizer_released")
        /\ Has("finalizer_released") => k8s.fin_sentinel
        /\ Has("sanity_checked") =>
              /\ Has("output_downloaded")
              /\ Pos("output_downloaded") < Pos("sanity_checked")
              /\ Pos("finalizer_released") < Pos("sanity_checked")

C30_Witness ==
    /\ cfg.call = "kubernetes"
    /\ k8s.pod.phase = "Failed"
    /\ k8s.finalizer /\ k8s.fin_sentinel
    /\ Has("sanity_checked")

\* C31: the claim is ensured by a listing followed by a creation, which are
\* two calls on the cluster: an invocation calls the creation exactly when its
\* own listing did not hold the name, whatever the cluster holds by then, so
\* two invocations that ensure the same absent name can both call the creation
CreatesOf(i, name) ==
    { j \in 1 .. Len(k8s.pvc_creates) :
          k8s.pvc_creates[j].by = i /\ k8s.pvc_creates[j].name = name }

ListingsOf(i, name) ==
    { j \in 1 .. Len(k8s.pvc_calls) :
          k8s.pvc_calls[j].by = i /\ k8s.pvc_calls[j].name = name }

C31_CreationFollowsOwnListing ==
    /\ \A j \in 1 .. Len(k8s.pvc_creates) :
          /\ k8s.pvc_creates[j].name \notin k8s.pvc_creates[j].listed
          /\ ListingsOf(k8s.pvc_creates[j].by, k8s.pvc_creates[j].name) # {}
    /\ \A i \in Invocations :
          pc[i] = "ensured" =>
              \A j \in 1 .. Len(k8s.pvc_calls) :
                  k8s.pvc_calls[j].by = i =>
                      (k8s.pvc_calls[j].name \notin k8s.pvc_calls[j].listed
                          <=> CreatesOf(i, k8s.pvc_calls[j].name) # {})

C31_Witness ==
    /\ cfg[1].pvc_name = cfg[2].pvc_name
    /\ \E j \in 1 .. Len(k8s.pvc_calls) :
          k8s.pvc_calls[j].name = cfg[1].pvc_name /\ k8s.pvc_calls[j].listed = {}
    /\ CreatesOf(1, cfg[1].pvc_name) # {}
    /\ CreatesOf(2, cfg[1].pvc_name) # {}

\* C32: once the files have been checked in the pod, every local input file
\* has been looked for, the uploaded files are exactly the files reported
\* missing, and no file reported present has been uploaded; before the check
\* nothing is uploaded
C32_UploadsExactlyTheMissing ==
    cfg.call = "kubernetes" =>
        /\ Has("files_checked") =>
              /\ k8s.checked = dataDir
              /\ k8s.uploads = k8s.checked \ k8s.present
              /\ k8s.uploads \cap k8s.present = {}
        /\ ~Has("files_checked") => k8s.uploads = {} /\ k8s.checked = {}

C32_Witness ==
    /\ cfg.call = "kubernetes" /\ cfg.nsubjects = 2
    /\ Has("files_checked")
    /\ k8s.checked = dataDir
    /\ k8s.present = { InternalName(0) }
    /\ k8s.uploads = { InternalName(1) }

VolumeNames(body) == { body.volumes[i].name : i \in 1 .. Len(body.volumes) }

MountNames(mounts) == { mounts[i].name : i \in 1 .. Len(mounts) }

C38_MountsNameDeclaredVolumes ==
    run.body # NoBody =>
        /\ MountNames(run.body.init_mounts) \subseteq VolumeNames(run.body)
        /\ MountNames(run.body.main_mounts) \subseteq VolumeNames(run.body)
        /\ Cardinality(VolumeNames(run.body)) = Len(run.body.volumes)

\* C34: on the cluster a failed reading of the log of the job container raises
\* nothing: the error is logged, the log of the job is empty and the job goes
\* on with the wait for the end of the pod
LogFetchFailedNow == pc = "k_observe" /\ ~Has("log_failed") /\ Has("log_failed")'

C34_LogFailureIsSoft ==
    [][ LogFetchFailedNow =>
            /\ pc' = "k_wait_done"
            /\ err' = NoErr
            /\ k8s'.log = ""
            /\ BagIn([ kind |-> "log_fetch_failed", about |-> <<>> ], warnings') ]_vars

C34_Witness ==
    /\ cfg.call = "kubernetes"
    /\ Has("log_failed") /\ k8s.log = ""
    /\ Pos("log_failed") < Pos("pod_ended")
    /\ Pos("pod_ended") < Pos("finalizer_created")
    /\ Pos("finalizer_created") < Pos("output_downloaded")
    /\ Pos("output_downloaded") < Pos("sanity_checked")
    /\ Has("backend_returned") /\ err = NoErr

\* C35: when a non-empty local folder of the record exists and the repository
\* answers, the resolution deletes nothing and downloads nothing if the
\* version of the local copy is the latest version of the repository, and
\* otherwise deletes the folder of the local copy and downloads once
UsableVersions(cache) == { v \in Versions : cache[v] = "full" }

LocalVersion(cache) ==
    CHOOSE v \in UsableVersions(cache) : \A w \in UsableVersions(cache) : w <= v

C35_StaleCopyReplacedOnce ==
    (pc = "z_done" /\ cfg.reachable /\ UsableVersions(cfg.cache) # {}) =>
        IF LocalVersion(cfg.cache) = cfg.remote
        THEN /\ run.result.deleted = 0
             /\ ~run.result.downloaded
             /\ dataDir = cfg.cache
        ELSE /\ run.result.deleted = LocalVersion(cfg.cache)
             /\ run.result.downloaded
             /\ Count("downloaded") = 1

\* C36: when the repository answers the request of the archive with another
\* status than success, the resolution raises the error of the artifact
\* repository and extracts nothing
C36_FailedDownloadRaises ==
    (pc = "z_done" /\ run.result.downloaded /\ ~cfg.download_ok) =>
        /\ err = "ZenodoException"
        /\ ~Extracted(cfg)
        /\ \A v \in Versions : dataDir[v] = "full" => cfg.cache[v] = "full"

\* C40: when a non-empty local folder of the record exists and the download
\* of the newer version fails, a non-empty local folder still exists afterwards
C40_FailedUpdateKeepsUsableCopy ==
    (pc = "z_done" /\ UsableVersions(cfg.cache) # {}
        /\ run.result.downloaded /\ ~cfg.download_ok) =>
        UsableVersions(dataDir) # {}

\* C37: in the sandboxed backend the overlay is there while the container runs
\* and the outputs are checked; once the run has returned or raised, the
\* overlay is gone if this invocation created it, on every way out of the
\* container run, and still there if it existed before
C37_OverlayRemovedIffCreated ==
    cfg.call = "singularity" =>
        /\ pc \in {"s_run", "s_sanity", "s_finally"} => run.overlay = "present"
        /\ (run.launched /\ pc = "done") =>
              /\ run.overlay_created => run.overlay = "absent"
              /\ ~run.overlay_created => run.overlay = "present"

C37_Witness ==
    /\ cfg.call = "singularity"
    /\ run.launched /\ pc = "done"
    /\ err = "BraTSContainerException"
    /\ run.overlay_created /\ run.overlay = "absent"

\* C39: when two invocations of the sandboxed backend for the same image
\* overlap, the overlay attached to an invocation whose container is running
\* is not deleted by the other invocation: while a container runs, its
\* overlay exists
C39_AttachedOverlayNotDeleted ==
    \A i \in Invocations : pc[i] = "o_running" => OverlayFile \in outDir

====
